---- MODULE Spec2Model ----
(***************************************************************************)
(* A model of the JASSv2 anytime top-k query processors: the three         *)
(* accumulator arrays (accumulator_2d, accumulator_simple,                 *)
(* accumulator_block_max), the heap-driven processor query_heap over the   *)
(* 2d and the simple array, and the block-max processor query_block_max.   *)
(*                                                                         *)
(* A pointer into an accumulator array is modelled by its address, counted *)
(* in bytes from &accumulator[0]; &zero (a member declared after the       *)
(* accumulators) is an address past the end of the array.                  *)
(***************************************************************************)
EXTENDS Integers, Sequences, FiniteSets, TLC

(***************************************************************************)
(* Bounds of the model.                                                    *)
(***************************************************************************)
\* Scaled-down stand-in for the template parameter NUMBER_OF_ACCUMULATORS
\* (query::MAX_DOCUMENTS in the processors, the array size in the unit tests).
MAX_DOCUMENTS == 5
\* Scaled-down stand-in for query::MAX_TOP_K, the size of accumulator_pointers[]
MAX_TOP_K == 3
\* documents passed to query_heap::init / query_block_max::init
Documents == 3
\* top_k passed to init
TopK == 2
\* width passed to init (the page shift)
PreferredWidth == 1
\* largest impact / score handed to add_rsv
MaxScore == 2
\* add_rsv calls (postings) in one run of the processors
MaxAdds == 3
\* rewind calls in one run of the processors
MaxRewinds == 2
\* operations in one run of the bare accumulator arrays
MaxAccOps == 4
\* a value left in memory that no constructor initialises
Garbage == 3
\* add_rsv calls (postings) made after the sort of their query, in one run
MaxLate == 1
\* get_next calls made after the NULL that ended a listing
MaxExtra == 2
\* get_by_name calls of one run
MaxManagers == 3
\* largest NUMBER_OF_ACCUMULATORS of the arrays whose sizing is checked
MaxCapacity == 65
\* largest preferred_width given to init when sizing is checked
MaxShift == 3
\* calls made on an array after its init when sizing is checked
MaxSizingOps == 2

(***************************************************************************)
(* Program constants.                                                      *)
(***************************************************************************)
\* sizeof(ACCUMULATOR_TYPE), ACCUMULATOR_TYPE being uint16_t
ElementSize == 2
\* 2^16: ACCUMULATOR_TYPE arithmetic wraps
AccumulatorModulus == 65536
\* memset(&dirty_flag[0], 0xFF, ...)
DirtyByte == 255

Kinds2 == {"2d", "simple", "block_max"}

Min(a, b) == IF a < b THEN a ELSE b

(***************************************************************************)
(* maths.h and libm                                                        *)
(***************************************************************************)
\* (size_t)sqrt(n)
isqrt(n) == CHOOSE r \in 0..n : r * r <= n /\ (r + 1) * (r + 1) > n

RECURSIVE floor_log2(_)
floor_log2(x) == IF x <= 1 THEN 0 ELSE 1 + floor_log2(x \div 2)

(***************************************************************************)
(* The accumulator arrays.  An array is a record                           *)
(*   n           number_of_accumulators                                    *)
(*   shift,width                                                           *)
(*   rows        number_of_dirty_flags / number_of_blocks                  *)
(*   allocated   number_of_accumulators_allocated                          *)
(*   accumulator the ELEMENT array, all of it (N + N/2 slots, N for simple)*)
(*   flag        dirty_flag[] (2d) or block_max[] (block_max)              *)
(*   failed      init threw std::bad_array_new_length                      *)
(***************************************************************************)
which_dirty_flag(a, element) == element \div (2 ^ a.shift)

\* the width taken for the shift
which_block_by_width(a, element) == element \div (2 ^ a.width)

which_block(a, element) == element \div (2 ^ a.shift)

\* the accumulators are cleared along with the flags being set
accumulator_2d_rewind_clears_slots(a) ==
    [a EXCEPT !.flag = [f \in DOMAIN a.flag |-> IF f < a.rows THEN DirtyByte ELSE a.flag[f]],
              !.accumulator =
                 [i \in DOMAIN a.accumulator |-> IF i < a.allocated THEN 0 ELSE a.accumulator[i]]]

accumulator_2d_rewind(a) ==
    [a EXCEPT !.flag = [f \in DOMAIN a.flag |-> IF f < a.rows THEN DirtyByte ELSE a.flag[f]]]

accumulator_simple_rewind(a) ==
    [a EXCEPT !.accumulator =
        [i \in DOMAIN a.accumulator |-> IF i < a.n THEN 0 ELSE a.accumulator[i]]]

\* the accumulators are cleared, the block maxima are left
accumulator_block_max_rewind_keeps_max(a) ==
    [a EXCEPT !.accumulator =
                 [i \in DOMAIN a.accumulator |-> IF i < a.n THEN 0 ELSE a.accumulator[i]]]

accumulator_block_max_rewind(a) ==
    [a EXCEPT !.accumulator =
                 [i \in DOMAIN a.accumulator |-> IF i < a.n THEN 0 ELSE a.accumulator[i]],
              !.flag = [b \in DOMAIN a.flag |-> IF b < a.rows THEN 0 ELSE a.flag[b]]]

\* the number of rows is rounded down
Layout_rows_rounded_down(n, p) ==
    LET shift == IF p >= 1 THEN p ELSE floor_log2(isqrt(n))
        width == 2 ^ shift
        rows  == n \div width
    IN  [shift |-> shift, width |-> width, rows |-> rows, allocated |-> width * rows]

\* the layout init() computes from (number_of_accumulators, preferred_width)
Layout(n, p) ==
    LET shift == IF p >= 1 THEN p ELSE floor_log2(isqrt(n))
        width == 2 ^ shift
        rows  == (n + width - 1) \div width
    IN  [shift |-> shift, width |-> width, rows |-> rows, allocated |-> width * rows]

accumulator_2d_init(n, p, N, g) ==
    LET l == Layout(n, p)
        a == [kind |-> "2d", n |-> n, shift |-> l.shift, width |-> l.width,
              rows |-> l.rows, allocated |-> l.allocated,
              accumulator |-> [i \in 0..(N + (N \div 2) - 1) |-> g],
              flag |-> [f \in 0..(N - 1) |-> g],
              failed |-> FALSE]
    IN  IF l.rows > N \/ l.allocated > N + (N \div 2)
        THEN [a EXCEPT !.failed = TRUE]
        ELSE accumulator_2d_rewind(a)

accumulator_simple_init(n, p, N, g) ==
    accumulator_simple_rewind(
        [kind |-> "simple", n |-> n, shift |-> 0, width |-> 1,
         rows |-> 0, allocated |-> n,
         accumulator |-> [i \in 0..(N - 1) |-> g],
         flag |-> << >>,
         failed |-> FALSE])

\* the slots past n are left as the allocation gave them
accumulator_block_max_init_padding_left(n, p, N, g) ==
    LET l == Layout(n, p)
        a == [kind |-> "block_max", n |-> n, shift |-> l.shift, width |-> l.width,
              rows |-> l.rows, allocated |-> l.allocated,
              accumulator |-> [i \in 0..(N + (N \div 2) - 1) |-> g],
              flag |-> [f \in 0..(N - 1) |-> g],
              failed |-> FALSE]
    IN  IF l.rows > N \/ l.allocated > N + (N \div 2)
        THEN [a EXCEPT !.failed = TRUE]
        ELSE accumulator_block_max_rewind(a)

accumulator_block_max_init(n, p, N, g) ==
    LET l == Layout(n, p)
        a == [kind |-> "block_max", n |-> n, shift |-> l.shift, width |-> l.width,
              rows |-> l.rows, allocated |-> l.allocated,
              accumulator |-> [i \in 0..(N + (N \div 2) - 1) |-> g],
              flag |-> [f \in 0..(N - 1) |-> g],
              failed |-> FALSE]
        r == accumulator_block_max_rewind(a)
    IN  IF l.rows > N \/ l.allocated > N + (N \div 2)
        THEN [a EXCEPT !.failed = TRUE]
        ELSE [r EXCEPT !.accumulator =
                 [i \in DOMAIN r.accumulator |->
                     IF i >= r.n /\ i < r.allocated THEN 0 ELSE r.accumulator[i]]]

\* the slot is read although its row is dirty
accumulator_2d_get_value_raw(a, which) == a.accumulator[which]

\* the flag looked at is that of index which, not of its row
accumulator_2d_get_value_flag_of_slot(a, which) ==
    IF a.flag[which] # 0 THEN 0 ELSE a.accumulator[which]

\* get_value(which): 2d and simple only; never changes the array
accumulator_2d_get_value(a, which) ==
    IF a.flag[which_dirty_flag(a, which)] # 0 THEN 0 ELSE a.accumulator[which]

accumulator_simple_get_value(a, which) == a.accumulator[which]

\* a dirty row is cleaned at the slot asked for only
accumulator_2d_index_slot_only(a, which) ==
    LET flag == which_dirty_flag(a, which)
    IN  IF a.flag[flag] # 0
        THEN [a EXCEPT !.accumulator[which] = 0, !.flag[flag] = 0]
        ELSE a

\* the row is cleaned but its dirty flag is left set
accumulator_2d_index_flag_kept(a, which) ==
    LET flag == which_dirty_flag(a, which)
    IN  IF a.flag[flag] # 0
        THEN [a EXCEPT !.accumulator =
                          [i \in DOMAIN a.accumulator |->
                              IF i >= flag * a.width /\ i < flag * a.width + a.width
                              THEN 0 ELSE a.accumulator[i]]]
        ELSE a

\* a dirty row has every row cleaned and every flag cleared
accumulator_2d_index_all_rows(a, which) ==
    LET flag == which_dirty_flag(a, which)
    IN  IF a.flag[flag] # 0
        THEN [a EXCEPT !.accumulator =
                          [i \in DOMAIN a.accumulator |->
                              IF i < a.allocated THEN 0 ELSE a.accumulator[i]],
                       !.flag = [f \in DOMAIN a.flag |-> IF f < a.rows THEN 0 ELSE a.flag[f]]]
        ELSE a

\* operator[](which): the array after the call (the reference returned is
\* &accumulator[which] of that array)
accumulator_2d_index(a, which) ==
    LET flag == which_dirty_flag(a, which)
    IN  IF a.flag[flag] # 0
        THEN [a EXCEPT !.accumulator =
                          [i \in DOMAIN a.accumulator |->
                              IF i >= flag * a.width /\ i < flag * a.width + a.width
                              THEN 0 ELSE a.accumulator[i]],
                       !.flag[flag] = 0]
        ELSE a

accumulator_simple_index(a, which) == a

accumulator_block_max_index(a, which) == a

\* the block maximum is not kept
accumulator_block_max_add_no_max(a, which, value) ==
    [a EXCEPT !.accumulator[which] = (a.accumulator[which] + value) % AccumulatorModulus]

\* add(which, value) of the block-max array
accumulator_block_max_add(a, which, value) ==
    LET v == (a.accumulator[which] + value) % AccumulatorModulus
        b == which_block(a, which)
    IN  [a EXCEPT !.accumulator[which] = v,
                  !.flag[b] = IF v > a.flag[b] THEN v ELSE a.flag[b]]

\* &accumulator[which] and get_index(pointer) = pointer - &accumulator[0]
AddressOf(which) == which * ElementSize

\* the difference is taken in bytes
get_index_in_bytes(pointer) == pointer

get_index(pointer) == pointer \div ElementSize

(***************************************************************************)
(* Variant dispatch, as the templates and the callers select it.           *)
(***************************************************************************)
acc_init(kind, n, p, N, g) ==
    CASE kind = "2d" -> accumulator_2d_init(n, p, N, g)
      [] kind = "simple" -> accumulator_simple_init(n, p, N, g)
      [] kind = "block_max" -> accumulator_block_max_init(n, p, N, g)

acc_rewind(a) ==
    CASE a.kind = "2d" -> accumulator_2d_rewind(a)
      [] a.kind = "simple" -> accumulator_simple_rewind(a)
      [] a.kind = "block_max" -> accumulator_block_max_rewind(a)

acc_index(a, which) ==
    CASE a.kind = "2d" -> accumulator_2d_index(a, which)
      [] a.kind = "simple" -> accumulator_simple_index(a, which)
      [] a.kind = "block_max" -> accumulator_block_max_index(a, which)

\* a read of index which through get_value where the variant has it, else
\* through operator[]
acc_get(a, which) ==
    CASE a.kind = "2d" -> accumulator_2d_get_value(a, which)
      [] a.kind = "simple" -> accumulator_simple_get_value(a, which)
      [] a.kind = "block_max" -> accumulator_block_max_index(a, which).accumulator[which]

\* instance[which] = value
acc_assign(a, which, value) ==
    [acc_index(a, which) EXCEPT !.accumulator[which] = value]

VARIABLES
    acc,      \* the three accumulator arrays, driven by the same calls
    accg,     \* what the caller of the arrays has seen and done
    query,        \* the processors
    caller        \* what the caller of the processors has seen and done

vars == <<acc, accg, query, caller>>

Idle == [mode |-> "idle"]

(***************************************************************************)
(* SpecAcc: the three accumulator arrays driven by one caller.  Every call *)
(* is made on all three arrays; accg records what the caller did and saw.  *)
(***************************************************************************)
AccSeen(arrays, i) == [k \in Kinds2 |-> arrays[k].accumulator[i]]

AccInit ==
    /\ \E n \in (Documents - 1)..Documents, p \in {0, PreferredWidth}, g \in {0, Garbage} :
          /\ acc = [k \in Kinds2 |-> acc_init(k, n, p, MAX_DOCUMENTS, g)]
          /\ accg = [mode |-> "acc", n |-> n, ops |-> 0, rewinds |-> 0,
                     written |-> {}, stale |-> {},
                     last |-> [op |-> "init", i |-> 0, seen |-> [k \in Kinds2 |-> 0]]]
    /\ query = Idle
    /\ caller = Idle

AccReady == accg.mode = "acc" /\ accg.ops < MaxAccOps /\ \A k \in Kinds2 : ~acc[k].failed

\* instance[i] = v
AccWrite(i, v) ==
    /\ AccReady
    /\ acc' = [k \in Kinds2 |-> acc_assign(acc[k], i, v)]
    /\ accg' = [accg EXCEPT !.ops = @ + 1, !.written = @ \cup {i},
                            !.last = [op |-> "write", i |-> i, seen |-> AccSeen(acc', i)]]
    /\ UNCHANGED <<query, caller>>

\* instance[i] += v (2d, simple), instance.add(i, v) (block_max)
AccAdd(i, v) ==
    /\ AccReady
    /\ acc' = [k \in Kinds2 |->
                 IF k = "block_max"
                 THEN accumulator_block_max_add(acc[k], i, v)
                 ELSE LET a == acc_index(acc[k], i)
                      IN  [a EXCEPT !.accumulator[i] = (@ + v) % AccumulatorModulus]]
    /\ accg' = [accg EXCEPT !.ops = @ + 1, !.written = @ \cup {i},
                            !.last = [op |-> "add", i |-> i, seen |-> AccSeen(acc', i)]]
    /\ UNCHANGED <<query, caller>>

\* a read of instance[i]
AccRead(i) ==
    /\ AccReady
    /\ acc' = [k \in Kinds2 |-> acc_index(acc[k], i)]
    /\ accg' = [accg EXCEPT !.ops = @ + 1,
                            !.last = [op |-> "read", i |-> i, seen |-> AccSeen(acc', i)]]
    /\ UNCHANGED <<query, caller>>

\* instance.get_value(i) (operator[] for block_max, which has no get_value)
AccGetValue(i) ==
    /\ AccReady
    /\ acc' = [k \in Kinds2 |-> IF k = "block_max" THEN acc_index(acc[k], i) ELSE acc[k]]
    /\ accg' = [accg EXCEPT !.ops = @ + 1,
                            !.last = [op |-> "get", i |-> i,
                                      seen |-> [k \in Kinds2 |-> acc_get(acc[k], i)]]]
    /\ UNCHANGED <<query, caller>>

\* instance.rewind()
AccRewind ==
    /\ AccReady
    /\ acc' = [k \in Kinds2 |-> acc_rewind(acc[k])]
    /\ accg' = [accg EXCEPT !.ops = @ + 1, !.rewinds = @ + 1,
                            !.stale = accg.written, !.written = {},
                            !.last = [op |-> "rewind", i |-> 0, seen |-> [k \in Kinds2 |-> 0]]]
    /\ UNCHANGED <<query, caller>>

AccNext ==
    \/ \E i \in 0..(accg.n - 1), v \in 1..MaxScore : AccWrite(i, v)
    \/ \E i \in 0..(accg.n - 1), v \in 1..MaxScore : AccAdd(i, v)
    \/ \E i \in 0..(accg.n - 1) : AccRead(i)
    \/ \E i \in 0..(accg.n - 1) : AccGetValue(i)
    \/ AccRewind

SpecAcc == AccInit /\ [][AccNext]_vars

\* C9: once rewind() has been called, every index not written since reads 0,
\* through get_value and through operator[], in all three arrays, whatever
\* was written before the rewind and whatever other indices were written after.
C9_RewindReadsZero ==
    (accg.mode = "acc" /\ accg.rewinds > 0) =>
        \A k \in Kinds2 : \A i \in 0..(accg.n - 1) :
            i \notin accg.written =>
                /\ acc_get(acc[k], i) = 0
                /\ acc_index(acc[k], i).accumulator[i] = 0
                /\ (accg.last.op \in {"read", "get"} /\ accg.last.i = i)
                       => accg.last.seen[k] = 0

\* a read of an index that held a value before the rewind, made after another
\* index of the same row was written
C9_Witness ==
    /\ accg.mode = "acc" /\ accg.rewinds > 0
    /\ accg.last.op = "read"
    /\ accg.last.i \in accg.stale \ accg.written
    /\ \E j \in accg.written :
          /\ j # accg.last.i
          /\ which_dirty_flag(acc["2d"], j) = which_dirty_flag(acc["2d"], accg.last.i)
    /\ \A k \in Kinds2 : accg.last.seen[k] = 0

\* C11: driven by the same sequence of rewind(), reads (operator[] and
\* get_value) and writes or increments on indices in [0, n), the 2d array and
\* the block-max array return at every read the value the simple array
\* returns, and every index would read the same in all three at any time.
C11_SameReads ==
    (accg.mode = "acc" /\ \A k \in Kinds2 : ~acc[k].failed) =>
        /\ \A k \in Kinds2 : \A i \in 0..(accg.n - 1) :
              /\ acc_get(acc[k], i) = acc_get(acc["simple"], i)
              /\ acc_index(acc[k], i).accumulator[i] = acc["simple"].accumulator[i]
        /\ accg.last.op \in {"read", "get", "write", "add"} =>
              \A k \in Kinds2 : accg.last.seen[k] = accg.last.seen["simple"]

\* a value written after a rewind is read back from all three arrays while
\* the 2d array still holds, in a row not touched since the rewind, a value
\* of before the rewind that the simple array has cleared
C11_Witness ==
    /\ accg.mode = "acc" /\ accg.rewinds > 0
    /\ accg.last.op \in {"read", "get"}
    /\ accg.last.i \in accg.written
    /\ \A k \in Kinds2 : accg.last.seen[k] > 0
    /\ \E j \in accg.stale \ accg.written :
          /\ acc["2d"].accumulator[j] # acc["simple"].accumulator[j]
          /\ acc["simple"].accumulator[j] = 0

(***************************************************************************)
(* SpecSizing: init(n, p) of the three arrays for several template sizes   *)
(* NUMBER_OF_ACCUMULATORS, followed by a few calls.  For every array the   *)
(* caller keeps how far into accumulator[] and into dirty_flag[] /         *)
(* block_max[] the calls have read or written: slots and flags are one     *)
(* past the highest index accessed.                                        *)
(***************************************************************************)
Capacities == {1, 4, 63, 64, MaxCapacity}

Reach(slots, flags) == [slots |-> slots, flags |-> flags]

Max(a, b) == IF a > b THEN a ELSE b

Further(r1, r2) == Reach(Max(r1.slots, r2.slots), Max(r1.flags, r2.flags))

\* what rewind() writes: the memset lengths
rewind_reach(a) ==
    CASE a.kind = "2d" -> Reach(0, a.rows)
      [] a.kind = "simple" -> Reach(a.n, 0)
      [] a.kind = "block_max" -> Reach(a.n, a.rows)

\* what init() writes: nothing when it throws, else rewind() and, for the
\* block-max array, the memset of the slots from n to the end of the last block
init_reach(a) ==
    IF a.failed THEN Reach(0, 0)
    ELSE IF a.kind = "block_max" THEN Further(rewind_reach(a), Reach(a.allocated, 0))
    ELSE rewind_reach(a)

\* what operator[](which) of the 2d and the simple array and add(which, v) of
\* the block-max array access
index_reach(a, which) ==
    CASE a.kind = "2d" ->
            IF a.flag[which_dirty_flag(a, which)] # 0
            THEN Reach(Max(which + 1, which_dirty_flag(a, which) * a.width + a.width),
                       which_dirty_flag(a, which) + 1)
            ELSE Reach(which + 1, which_dirty_flag(a, which) + 1)
      [] a.kind = "simple" -> Reach(which + 1, 0)
      [] a.kind = "block_max" -> Reach(which + 1, which_block(a, which) + 1)

\* what the scan of query_block_max::sort reads at most: every block maximum
\* and every slot of every block
scan_reach(a) ==
    IF a.kind = "block_max" THEN Reach(a.rows * a.width, a.rows) ELSE Reach(0, 0)

\* the arrays as declared: accumulator[] and dirty_flag[] / block_max[]
Storage(kind, N) ==
    IF kind = "simple" THEN Reach(N, 0) ELSE Reach(N + (N \div 2), N)

SizingInit ==
    /\ \E N \in Capacities :
          accg = [mode |-> "sizing", stage |-> "constructed", N |-> N, n |-> 0, p |-> 0,
                  ops |-> 0, reach |-> [k \in Kinds2 |-> Reach(0, 0)]]
    /\ acc = Idle
    /\ query = Idle
    /\ caller = Idle

\* no array has thrown and none has written outside its storage
SizingSound ==
    /\ accg.mode = "sizing" /\ accg.stage = "initialised"
    /\ accg.ops < MaxSizingOps
    /\ \A k \in Kinds2 :
          /\ ~acc[k].failed
          /\ accg.reach[k].slots <= Storage(k, accg.N).slots
          /\ accg.reach[k].flags <= Storage(k, accg.N).flags

\* array.init(n, p)
SizingCallInit(n, p, g) ==
    /\ accg.mode = "sizing" /\ accg.stage = "constructed"
    /\ acc' = [k \in Kinds2 |-> acc_init(k, n, p, accg.N, g)]
    /\ accg' = [accg EXCEPT !.stage = "initialised", !.n = n, !.p = p,
                            !.reach = [k \in Kinds2 |-> init_reach(acc'[k])]]
    /\ UNCHANGED <<query, caller>>

\* array[i] (array.add(i, 1) for the block-max array)
SizingTouch(i) ==
    /\ SizingSound
    /\ acc' = [k \in Kinds2 |->
                 IF k = "block_max" THEN accumulator_block_max_add(acc[k], i, 1)
                 ELSE acc_index(acc[k], i)]
    /\ accg' = [accg EXCEPT !.ops = @ + 1,
                            !.reach = [k \in Kinds2 |->
                                          Further(@[k], index_reach(acc[k], i))]]
    /\ UNCHANGED <<query, caller>>

\* array.rewind()
SizingRewind ==
    /\ SizingSound
    /\ acc' = [k \in Kinds2 |-> acc_rewind(acc[k])]
    /\ accg' = [accg EXCEPT !.ops = @ + 1,
                            !.reach = [k \in Kinds2 |-> Further(@[k], rewind_reach(acc[k]))]]
    /\ UNCHANGED <<query, caller>>

\* the scan of the blocks that query_block_max::sort makes
SizingScan ==
    /\ SizingSound
    /\ acc' = acc
    /\ accg' = [accg EXCEPT !.ops = @ + 1,
                            !.reach = [k \in Kinds2 |-> Further(@[k], scan_reach(acc[k]))]]
    /\ UNCHANGED <<query, caller>>

SizingNext ==
    \/ \E n \in 1..(accg.N + 1), p \in 0..MaxShift, g \in {Garbage} : SizingCallInit(n, p, g)
    \/ \E i \in {0, accg.n - 1} : SizingTouch(i)
    \/ SizingRewind
    \/ SizingScan

SpecSizing == SizingInit /\ [][SizingNext]_vars

\* C17: init(n, p) of the 2d and the block-max array sets shift = p when
\* p >= 1 and otherwise shift = floor(log2(floor(sqrt(n)))) (the s with
\* 4^s <= n < 4^(s+1)), width = 2^shift and rows = ceil(n / width); with the
\* default p, n = 64 gives width 8 and 8 rows, n = 65 width 8 and 9 rows,
\* n = 63 width 4 and 16 rows, n = 1 width 1 and 1 row.
C17_PageSizing ==
    (accg.mode = "sizing" /\ accg.stage = "initialised") =>
        \A k \in {"2d", "block_max"} :
            LET a == acc[k]
                n == accg.n
            IN  /\ accg.p >= 1 => a.shift = accg.p
                /\ accg.p = 0 => (4 ^ a.shift <= n /\ n < 4 ^ (a.shift + 1))
                /\ a.width = 2 ^ a.shift
                /\ a.rows * a.width >= n
                /\ (a.rows - 1) * a.width < n
                /\ (accg.p = 0 /\ n = 64) => (a.width = 8 /\ a.shift = 3 /\ a.rows = 8)
                /\ (accg.p = 0 /\ n = 65) => (a.width = 8 /\ a.shift = 3 /\ a.rows = 9)
                /\ (accg.p = 0 /\ n = 63) => (a.width = 4 /\ a.shift = 2 /\ a.rows = 16)
                /\ (accg.p = 0 /\ n = 1) => (a.width = 1 /\ a.shift = 0 /\ a.rows = 1)

\* accumulator_2d<size_t, 65>::init(65), the array_hangover of the unit test:
\* the last row holds one accumulator
C17_Witness ==
    /\ accg.mode = "sizing" /\ accg.stage = "initialised"
    /\ accg.N = 65 /\ accg.n = 65 /\ accg.p = 0
    /\ \A k \in {"2d", "block_max"} :
          /\ ~acc[k].failed
          /\ acc[k].width = 8 /\ acc[k].rows = 9 /\ acc[k].allocated = 72

Within(r, kind) ==
    /\ r.slots <= Storage(kind, accg.N).slots
    /\ r.flags <= Storage(kind, accg.N).flags

\* init completed and everything the calls made so far accessed, and
\* everything a first touch of an index in [0, n), a rewind or a block scan
\* would access, lies inside the arrays as declared
FitsStorage(kind) ==
    /\ accg.n <= Storage(kind, accg.N).slots
    /\ Within(accg.reach[kind], kind)
    /\ Within(rewind_reach(acc[kind]), kind)
    /\ Within(scan_reach(acc[kind]), kind)
    /\ \A i \in 0..(accg.n - 1) : Within(index_reach(acc[kind], i), kind)

\* C18 (as claimed): for each of the three arrays init(n, p) either throws
\* std::bad_array_new_length or completes with a layout that fits the storage
\* dimensioned by NUMBER_OF_ACCUMULATORS.
C18_InitFitsStorage ==
    (accg.mode = "sizing" /\ accg.stage = "initialised") =>
        \A k \in Kinds2 : ~acc[k].failed => FitsStorage(k)

\* the 2d and the block-max array do throw or fit
PagedInitFitsStorage ==
    (accg.mode = "sizing" /\ accg.stage = "initialised") =>
        \A k \in {"2d", "block_max"} : ~acc[k].failed => FitsStorage(k)

\* the simple array fits whenever n is at most NUMBER_OF_ACCUMULATORS
SimpleFitsWhenAsked ==
    (accg.mode = "sizing" /\ accg.stage = "initialised" /\ accg.n <= accg.N) =>
        FitsStorage("simple")

\* the paged arrays threw on a call that overran the simple array
SimpleOverrun ==
    /\ accg.mode = "sizing" /\ accg.stage = "initialised"
    /\ accg.n > accg.N
    /\ acc["2d"].failed /\ acc["block_max"].failed
    /\ ~acc["simple"].failed

(***************************************************************************)
(* SpecExample: unittest_example() of the three arrays.  The shuffled      *)
(* sequence is any order of the indices [0, n); each loop iteration is one *)
(* step, the final scan another.                                           *)
(***************************************************************************)
RECURSIVE ScanAll(_, _)
\* for (element = 0; element < instance.size(); element++) instance[element]:
\* the array after the scan and the values it read, from index j on
ScanAll(a, j) ==
    IF j >= a.n THEN [array |-> a, values |-> << >>]
    ELSE LET a1 == acc_index(a, j)
             rest == ScanAll(a1, j + 1)
         IN  [array |-> rest.array, values |-> <<a1.accumulator[j]>> \o rest.values]

ExampleInit ==
    /\ \E n \in 1..MAX_DOCUMENTS, g \in {0, Garbage} :
          /\ acc = [k \in Kinds2 |-> acc_init(k, n, 0, MAX_DOCUMENTS, g)]
          /\ accg = [mode |-> "example", n |-> n, sequence |-> << >>,
                     before |-> [k \in Kinds2 |-> << >>],
                     after |-> [k \in Kinds2 |-> << >>],
                     final |-> [k \in Kinds2 |-> << >>],
                     done |-> FALSE]
    /\ query = Idle
    /\ caller = Idle

\* JASS_assert(instance[position] == 0); instance[position] = position;
\* JASS_assert(instance[position] == position);
ExampleVisit(position) ==
    /\ accg.mode = "example" /\ ~accg.done
    /\ \A k \in Kinds2 : ~acc[k].failed
    /\ \A j \in 1..Len(accg.sequence) : accg.sequence[j] # position
    /\ LET a1 == [k \in Kinds2 |-> acc_index(acc[k], position)]
           a2 == [k \in Kinds2 |-> acc_assign(a1[k], position, position)]
           a3 == [k \in Kinds2 |-> acc_index(a2[k], position)]
       IN  /\ acc' = a3
           /\ accg' = [accg EXCEPT
                  !.sequence = Append(@, position),
                  !.before = [k \in Kinds2 |-> Append(@[k], a1[k].accumulator[position])],
                  !.after = [k \in Kinds2 |-> Append(@[k], a3[k].accumulator[position])]]
    /\ UNCHANGED <<query, caller>>

\* the closing loop: JASS_assert(instance[element] == element)
ExampleScan ==
    /\ accg.mode = "example" /\ ~accg.done
    /\ \A k \in Kinds2 : ~acc[k].failed
    /\ Len(accg.sequence) = accg.n
    /\ acc' = [k \in Kinds2 |-> ScanAll(acc[k], 0).array]
    /\ accg' = [accg EXCEPT !.done = TRUE,
                            !.final = [k \in Kinds2 |-> ScanAll(acc[k], 0).values]]
    /\ UNCHANGED <<query, caller>>

ExampleNext ==
    \/ \E position \in 0..(accg.n - 1) : ExampleVisit(position)
    \/ ExampleScan

SpecExample == ExampleInit /\ [][ExampleNext]_vars

\* C10: in unittest_example, whatever n and whatever the order of the
\* indices, every index reads 0 before it is written and its own value right
\* after, and the closing scan reads a[j] = j for every j, in all three arrays.
C10_PermutationRoundTrip ==
    accg.mode = "example" =>
        \A k \in Kinds2 :
            /\ \A j \in 1..Len(accg.sequence) :
                  /\ accg.before[k][j] = 0
                  /\ accg.after[k][j] = accg.sequence[j]
            /\ accg.done => accg.final[k] = [j \in 1..accg.n |-> j - 1]

\* a finished run over the largest array, visited in an order that is not
\* ascending and left the first row for last
C10_Witness ==
    /\ accg.mode = "example" /\ accg.done
    /\ accg.n = MAX_DOCUMENTS
    /\ accg.sequence[accg.n] = 0
    /\ accg.sequence[1] = accg.n - 1
    /\ \A k \in Kinds2 : accg.final[k] = [j \in 1..accg.n |-> j - 1]

(***************************************************************************)
(* The processors.  A processor is a record                                *)
(*   kind                  "2d_heap", "1d_heap" (query_heap over the 2d    *)
(*                          and the simple array) or "blockmax"            *)
(*   top_k, documents, impact                      (class query)           *)
(*   accumulators, needed_for_top_k, zero, accumulator_pointers, sorted,   *)
(*   top_k_lower_bound, next_result_location       (the derived class)     *)
(*   undefined             since its latest rewind the processor has read  *)
(*                          an uninitialised pointer, an entry that find() *)
(*                          did not find or a primary key past the table:  *)
(*                          the results of this query are arbitrary        *)
(***************************************************************************)
Processors == {"2d_heap", "1d_heap", "blockmax"}
HeapProcessors == {"2d_heap", "1d_heap"}

ArrayOf(kind) ==
    CASE kind = "2d_heap" -> "2d"
      [] kind = "1d_heap" -> "simple"
      [] kind = "blockmax" -> "block_max"

\* sizeof(DOCID_TYPE): needed_for_top_k lies between the accumulators and zero
DocidSize == 4

\* &zero, a member of query_heap declared after accumulators
ZeroAddress(q) == AddressOf(Cardinality(DOMAIN q.accumulators.accumulator)) + DocidSize

\* an accumulator_pointer that was never assigned
WildPointer == 0 - ElementSize

valid_pointer(q, pointer) ==
    \/ q.kind \in HeapProcessors /\ pointer = ZeroAddress(q)
    \/ /\ pointer >= 0
       /\ pointer % ElementSize = 0
       /\ get_index(pointer) \in DOMAIN q.accumulators.accumulator

\* *pointer
Deref(q, pointer) ==
    IF q.kind \in HeapProcessors /\ pointer = ZeroAddress(q) THEN q.zero
    ELSE IF valid_pointer(q, pointer) THEN q.accumulators.accumulator[get_index(pointer)]
    ELSE 0

\* the values compared the wrong way round
add_rsv_compare_inverted(q, a, b) ==
    IF Deref(q, a) < Deref(q, b) THEN 1
    ELSE IF Deref(q, a) > Deref(q, b) THEN -1
    ELSE IF a < b THEN -1
    ELSE IF a = b THEN 0
    ELSE 1

\* equal values compare equal whatever the addresses
add_rsv_compare_value_only(q, a, b) ==
    IF Deref(q, a) < Deref(q, b) THEN -1
    ELSE IF Deref(q, a) > Deref(q, b) THEN 1
    ELSE 0

\* query::add_rsv_compare on (value, address)
add_rsv_compare(q, a, b) ==
    IF Deref(q, a) < Deref(q, b) THEN -1
    ELSE IF Deref(q, a) > Deref(q, b) THEN 1
    ELSE IF a < b THEN -1
    ELSE IF a = b THEN 0
    ELSE 1

\* equal values ordered by ascending address
sort_rsv_compare_low_address_first(q, a, b) ==
    IF Deref(q, a) < Deref(q, b) THEN 1
    ELSE IF Deref(q, a) > Deref(q, b) THEN -1
    ELSE IF a < b THEN -1
    ELSE IF a = b THEN 0
    ELSE 1

\* the values ordered low to high
sort_rsv_compare_low_value_first(q, a, b) ==
    IF Deref(q, a) < Deref(q, b) THEN -1
    ELSE IF Deref(q, a) > Deref(q, b) THEN 1
    ELSE IF a < b THEN 1
    ELSE IF a = b THEN 0
    ELSE -1

\* query::sort_rsv_compare
sort_rsv_compare(q, a, b) ==
    IF Deref(q, a) < Deref(q, b) THEN 1
    ELSE IF Deref(q, a) > Deref(q, b) THEN -1
    ELSE IF a < b THEN 1
    ELSE IF a = b THEN 0
    ELSE -1

AllValid(q, from) ==
    \A i \in from..(q.top_k - 1) : valid_pointer(q, q.accumulator_pointers[i])

(***************************************************************************)
(* heap.h: a min-heap over accumulator_pointers[0 .. top_k), ordered by    *)
(* (value, address).                                                       *)
(***************************************************************************)
RECURSIVE heapify(_, _, _, _)
\* sift array[position] down until neither child is smaller
heapify(q, array, size, position) ==
    LET left  == 2 * position + 1
        right == 2 * position + 2
        s1 == IF left < size /\ add_rsv_compare(q, array[left], array[position]) < 0
              THEN left ELSE position
        s2 == IF right < size /\ add_rsv_compare(q, array[right], array[s1]) < 0
              THEN right ELSE s1
    IN  IF s2 = position THEN array
        ELSE heapify(q, [array EXCEPT ![position] = array[s2], ![s2] = array[position]],
                     size, s2)

RECURSIVE make_heap_from(_, _, _, _)
make_heap_from(q, array, size, position) ==
    IF position < 0 THEN array
    ELSE make_heap_from(q, heapify(q, array, size, position), size, position - 1)

\* the array is left as it was filled
make_heap_unordered(q) ==
    [q EXCEPT !.undefined = @ \/ ~AllValid(q, 0)]

make_heap(q) ==
    [q EXCEPT !.accumulator_pointers = make_heap_from(q, @, q.top_k, (q.top_k \div 2) - 1),
              !.undefined = @ \/ ~AllValid(q, 0)]

\* replace the smallest entry by key when key is larger, then sift
push_back(q, key) ==
    IF add_rsv_compare(q, q.accumulator_pointers[0], key) < 0
    THEN [q EXCEPT !.accumulator_pointers =
                      heapify(q, [@ EXCEPT ![0] = key], q.top_k, 0),
                   !.undefined = @ \/ ~AllValid(q, 0)]
    ELSE [q EXCEPT !.undefined = @ \/ ~AllValid(q, 0)]

\* linear search; top_k when key is not there
find(q, key) ==
    IF \E i \in 0..(q.top_k - 1) : q.accumulator_pointers[i] = key
    THEN CHOOSE i \in 0..(q.top_k - 1) :
            /\ q.accumulator_pointers[i] = key
            /\ \A j \in 0..(i - 1) : q.accumulator_pointers[j] # key
    ELSE q.top_k

\* the value at key grew in place: sift it down from position
promote(q, key, position) ==
    IF position >= q.top_k
    THEN [q EXCEPT !.undefined = TRUE]
    ELSE [q EXCEPT !.accumulator_pointers = heapify(q, @, q.top_k, position),
                   !.undefined = @ \/ ~AllValid(q, 0)]

(***************************************************************************)
(* top_k_qsort.h: sort(a, n, top_k) orders the n pointers at a so that     *)
(* get_next(), which reads the array from its end, meets them in the order *)
(* of final_sort_cmp (query::sort_rsv_compare).                            *)
(***************************************************************************)
RECURSIVE insert_ordered(_, _, _)
insert_ordered(q, sorted, pointer) ==
    IF sorted = << >> THEN <<pointer>>
    ELSE IF sort_rsv_compare(q, pointer, Head(sorted)) >= 0 THEN <<pointer>> \o sorted
    ELSE <<Head(sorted)>> \o insert_ordered(q, Tail(sorted), pointer)

RECURSIVE sort_sequence(_, _)
sort_sequence(q, pointers) ==
    IF pointers = << >> THEN << >>
    ELSE insert_ordered(q, sort_sequence(q, Tail(pointers)), Head(pointers))

top_k_qsort_sort(q, from, n) ==
    LET ordered == sort_sequence(q, [i \in 1..n |-> q.accumulator_pointers[from + i - 1]])
    IN  [q EXCEPT !.accumulator_pointers =
                     [i \in DOMAIN @ |-> IF i >= from /\ i < from + n
                                         THEN ordered[i - from + 1] ELSE @[i]],
                  !.undefined = @ \/ ~AllValid(q, from)]

(***************************************************************************)
(* class query and its two derived processors.                             *)
(*                                                                         *)
(* query::rewind takes (smallest_possible_rsv, largest_possible_rsv);      *)
(* query_heap::rewind and query_block_max::rewind take three parameters    *)
(* and so do not override it.  The rewind() that the derived constructor   *)
(* calls is its own, run while top_k is still the 0 of query::query(); the *)
(* rewind() inside query::init is query::rewind.                           *)
(***************************************************************************)
\* query::rewind
query_rewind(q) == [q EXCEPT !.impact = 0]

\* the lower bound handed to rewind is dropped, as query_block_max does
query_heap_rewind_bound_one(q, top_k_lower_bound) ==
    query_rewind([q EXCEPT !.sorted = FALSE,
                           !.undefined = FALSE,
                           !.zero = 0,
                           !.accumulator_pointers[0] = ZeroAddress(q),
                           !.accumulators = acc_rewind(@),
                           !.needed_for_top_k = q.top_k,
                           !.top_k_lower_bound = 1])

\* one more result is asked for than the array has room for
query_heap_rewind_one_more(q, top_k_lower_bound) ==
    query_rewind([q EXCEPT !.sorted = FALSE,
                           !.undefined = FALSE,
                           !.zero = 0,
                           !.accumulator_pointers[0] = ZeroAddress(q),
                           !.accumulators = acc_rewind(@),
                           !.needed_for_top_k = q.top_k + 1,
                           !.top_k_lower_bound = top_k_lower_bound])

query_heap_rewind(q, top_k_lower_bound) ==
    query_rewind([q EXCEPT !.sorted = FALSE,
                           !.undefined = FALSE,
                           !.zero = 0,
                           !.accumulator_pointers[0] = ZeroAddress(q),
                           !.accumulators = acc_rewind(@),
                           !.needed_for_top_k = q.top_k,
                           !.top_k_lower_bound = top_k_lower_bound])

query_block_max_rewind(q, top_k_lower_bound) ==
    query_rewind([q EXCEPT !.sorted = FALSE,
                           !.undefined = FALSE,
                           !.accumulators = acc_rewind(@),
                           !.needed_for_top_k = q.top_k])

\* new query_heap(codex) followed by init(primary_keys, documents, top_k, width);
\* g is what the allocation left in the members no constructor writes
query_heap_init(kind, documents, top_k, width, g) ==
    LET q == [kind |-> kind, top_k |-> top_k, documents |-> documents, impact |-> 0,
              accumulators |-> acc_init(ArrayOf(kind), documents, width, MAX_DOCUMENTS, g),
              needed_for_top_k |-> 0, zero |-> 0,
              accumulator_pointers |-> [i \in 0..(top_k - 1) |-> WildPointer],
              sorted |-> FALSE, top_k_lower_bound |-> 1,
              next_result_location |-> g, undefined |-> FALSE]
    IN  query_rewind([q EXCEPT !.accumulator_pointers[0] = ZeroAddress(q)])

query_block_max_init(kind, documents, top_k, width, g) ==
    query_rewind(
        [kind |-> kind, top_k |-> top_k, documents |-> documents, impact |-> 0,
         accumulators |-> acc_init(ArrayOf(kind), documents, width, MAX_DOCUMENTS, g),
         needed_for_top_k |-> 0,
         accumulator_pointers |-> [i \in 0..(top_k - 1) |-> WildPointer],
         sorted |-> FALSE,
         next_result_location |-> g, undefined |-> FALSE])

\* every accumulator that passes the bound is taken to be absent
not_in_heap_always(q, which, old) == TRUE

\* the test on the old value alone, without the address tie-break
not_in_heap_by_value(q, which, old) ==
    old < q.top_k_lower_bound

\* query_heap::add_rsv, the test that picks push_back over find and promote:
\* the accumulator at which, whose value was old, is not in the heap
not_in_heap(q, which, old) ==
    \/ old < q.top_k_lower_bound
    \/ (old = q.top_k_lower_bound /\ which < q.accumulator_pointers[0])

\* the score is added and a value below the bound becomes the bound; the
\* heap is not kept
query_heap_add_rsv_bound_follows(q, document_id, score) ==
    LET a1    == acc_index(q.accumulators, document_id)
        value == (a1.accumulator[document_id] + score) % AccumulatorModulus
        q1    == [q EXCEPT !.accumulators = [a1 EXCEPT !.accumulator[document_id] = value]]
    IN  [q |-> [q1 EXCEPT !.top_k_lower_bound = IF value < @ THEN value ELSE @],
         done |-> FALSE]

\* query_heap::add_rsv: the processor afterwards, and whether Done was thrown
query_heap_add_rsv(q, document_id, score) ==
    LET a1    == acc_index(q.accumulators, document_id)
        value == (a1.accumulator[document_id] + score) % AccumulatorModulus
        q1    == [q EXCEPT !.accumulators = [a1 EXCEPT !.accumulator[document_id] = value]]
        which == AddressOf(document_id)
        lb    == q.top_k_lower_bound
        bottom(r) == [r EXCEPT !.top_k_lower_bound = Deref(r, r.accumulator_pointers[0])]
    IN  IF value < lb
        THEN [q |-> q1, done |-> FALSE]
        ELSE IF q1.needed_for_top_k > 0
        THEN IF value - score < lb
             THEN LET q2 == [q1 EXCEPT
                               !.accumulator_pointers[q1.needed_for_top_k - 1] = which,
                               !.needed_for_top_k = @ - 1]
                  IN  IF q2.needed_for_top_k = 0
                      THEN IF lb # 1
                           THEN [q |-> make_heap(q2), done |-> TRUE]
                           ELSE [q |-> bottom(make_heap(q2)), done |-> FALSE]
                      ELSE [q |-> q2, done |-> FALSE]
             ELSE [q |-> q1, done |-> FALSE]
        ELSE IF value = lb
        THEN IF which < q1.accumulator_pointers[0]
             THEN [q |-> q1, done |-> FALSE]
             ELSE [q |-> bottom(push_back(q1, which)), done |-> FALSE]
        ELSE IF not_in_heap(q1, which, value - score)
        THEN [q |-> bottom(push_back(q1, which)), done |-> FALSE]
        ELSE [q |-> bottom(promote(q1, which, find(q1, which))), done |-> FALSE]

\* query_block_max::add_rsv
query_block_max_add_rsv(q, document_id, score) ==
    [q |-> [q EXCEPT !.accumulators = accumulator_block_max_add(@, document_id, score)],
     done |-> FALSE]

\* Done is thrown by every call that leaves the heap full
add_rsv_done_when_full(q, document_id, score) ==
    LET r == IF q.kind \in HeapProcessors
             THEN query_heap_add_rsv(q, document_id, score)
             ELSE query_block_max_add_rsv(q, document_id, score)
    IN  [q |-> r.q, done |-> r.q.needed_for_top_k = 0]

add_rsv(q, document_id, score) ==
    IF q.kind \in HeapProcessors
    THEN query_heap_add_rsv(q, document_id, score)
    ELSE query_block_max_add_rsv(q, document_id, score)

\* simd::cumulative_sum_256: the d1-decoding prefix sum
\* the deltas are taken for the document ids
cumulative_sum_256_left_as_deltas(buffer) == buffer

RECURSIVE cumulative_sum_256(_)
cumulative_sum_256(buffer) ==
    IF Len(buffer) <= 1 THEN buffer
    ELSE LET front == cumulative_sum_256(SubSeq(buffer, 1, Len(buffer) - 1))
         IN  Append(front, front[Len(front)] + buffer[Len(buffer)])

\* the loop goes on after a Done
RECURSIVE process_postings_no_break(_, _, _)
process_postings_no_break(q, buffer, current) ==
    IF current > Len(buffer) THEN q
    ELSE process_postings_no_break(add_rsv(q, buffer[current], q.impact).q,
                                   buffer, current + 1)

\* the loop of decode_with_writer; only query_heap::add_rsv throws Done, and
\* the loop of query_heap catches it and stops
RECURSIVE process_postings(_, _, _)
process_postings(q, buffer, current) ==
    IF current > Len(buffer) THEN q
    ELSE LET r == add_rsv(q, buffer[current], q.impact)
         IN  IF r.done THEN r.q ELSE process_postings(r.q, buffer, current + 1)

\* the posting at which add_rsv throws Done in the loop of decode_with_writer,
\* 0 when none does
RECURSIVE signal_position(_, _, _)
signal_position(q, buffer, current) ==
    IF current > Len(buffer) THEN 0
    ELSE LET r == add_rsv(q, buffer[current], q.impact)
         IN  IF r.done THEN current ELSE signal_position(r.q, buffer, current + 1)

\* does a Done thrown in the loop leave decode_with_writer: query_heap catches
\* it, the loop of query_block_max has no try
decode_with_writer_throws(q, compressed) ==
    IF q.kind \in HeapProcessors THEN FALSE
    ELSE signal_position(q, cumulative_sum_256(compressed), 1) # 0

\* the codex of the unit tests stores the integers as they are
decode_with_writer(q, compressed) ==
    process_postings(q, cumulative_sum_256(compressed), 1)

\* query::decode_and_process
decode_and_process(q, impact, compressed) ==
    decode_with_writer([q EXCEPT !.impact = impact], compressed)

query_heap_sort(q) ==
    IF q.sorted THEN q
    ELSE [top_k_qsort_sort(q, q.needed_for_top_k, q.top_k - q.needed_for_top_k)
             EXCEPT !.sorted = TRUE]

\* the inner loop of query_block_max::sort over one block;
\* s is [q, bottom_of_heap]
RECURSIVE scan_block(_, _, _)
scan_block(s, current_accumulator, end_accumulator) ==
    IF current_accumulator >= end_accumulator THEN s
    ELSE IF s.q.accumulators.accumulator[current_accumulator] > s.bottom_of_heap
    THEN IF s.q.needed_for_top_k > 0
         THEN LET q1 == [s.q EXCEPT
                           !.accumulator_pointers[s.q.needed_for_top_k - 1] =
                               AddressOf(current_accumulator),
                           !.needed_for_top_k = @ - 1]
                  q2 == make_heap(q1)
              IN  IF q1.needed_for_top_k = 0
                  THEN scan_block([q |-> q2,
                                   bottom_of_heap |-> Deref(q2, q2.accumulator_pointers[0])],
                                  current_accumulator + 1, end_accumulator)
                  ELSE scan_block([q |-> q1, bottom_of_heap |-> s.bottom_of_heap],
                                  current_accumulator + 1, end_accumulator)
         ELSE LET q1 == push_back(s.q, AddressOf(current_accumulator))
              IN  scan_block([q |-> q1,
                              bottom_of_heap |-> Deref(q1, q1.accumulator_pointers[0])],
                             current_accumulator + 1, end_accumulator)
    ELSE scan_block(s, current_accumulator + 1, end_accumulator)

\* the outer loop over block_max[]
RECURSIVE scan_blocks(_, _)
scan_blocks(s, block) ==
    IF block >= s.q.accumulators.rows THEN s
    ELSE IF s.q.accumulators.flag[block] > s.bottom_of_heap
    THEN scan_blocks(scan_block(s, block * s.q.accumulators.width,
                                block * s.q.accumulators.width
                                    + s.q.accumulators.width),
                     block + 1)
    ELSE scan_blocks(s, block + 1)

\* the collect runs again although the processor is sorted
query_block_max_sort_unguarded(q) ==
    LET c == scan_blocks([q |-> q, bottom_of_heap |-> 0], 0).q
    IN  [top_k_qsort_sort(c, c.needed_for_top_k, c.top_k - c.needed_for_top_k)
            EXCEPT !.sorted = TRUE]

query_block_max_sort(q) ==
    IF q.sorted THEN q
    ELSE LET c == scan_blocks([q |-> q, bottom_of_heap |-> 0], 0).q
         IN  [top_k_qsort_sort(c, c.needed_for_top_k, c.top_k - c.needed_for_top_k)
                 EXCEPT !.sorted = TRUE]

sort(q) == IF q.kind \in HeapProcessors THEN query_heap_sort(q) ELSE query_block_max_sort(q)

rewind(q, top_k_lower_bound) ==
    IF q.kind \in HeapProcessors
    THEN query_heap_rewind(q, top_k_lower_bound)
    ELSE query_block_max_rewind(q, top_k_lower_bound)

\* what get_first / get_next hand back: NULL or next_result.  primary_key is
\* the position in the primary key table (one key per document).
NULL == [null |-> TRUE, document_id |-> 0, primary_key |-> 0, rsv |-> 0]

\* the end of the results is tested with > where the code has >=
get_next_one_too_many(q) ==
    IF q.next_result_location > q.top_k - q.needed_for_top_k
    THEN [q |-> q, result |-> [null |-> TRUE, document_id |-> 0, primary_key |-> 0,
                               rsv |-> 0]]
    ELSE LET at == q.top_k - q.next_result_location - 1
             in_array == at \in DOMAIN q.accumulator_pointers
             pointer == IF in_array THEN q.accumulator_pointers[at] ELSE WildPointer
             id == get_index(pointer)
         IN  [q |-> [q EXCEPT !.next_result_location = @ + 1,
                              !.undefined = @ \/ ~in_array \/ ~valid_pointer(q, pointer)],
              result |-> [null |-> FALSE, document_id |-> id, primary_key |-> id,
                          rsv |-> Deref(q, pointer)]]

\* get_next of both processors: query_heap reads the rsv with get_value(id),
\* query_block_max with accumulators[id]
get_next(q) ==
    IF q.next_result_location >= q.top_k - q.needed_for_top_k
    THEN [q |-> q, result |-> NULL]
    ELSE LET at == q.top_k - q.next_result_location - 1
             in_array == at \in DOMAIN q.accumulator_pointers
             pointer == IF in_array THEN q.accumulator_pointers[at] ELSE WildPointer
             id == get_index(pointer)
             ok == /\ in_array
                   /\ valid_pointer(q, pointer)
                   /\ id >= 0 /\ id < q.documents
             accumulators == IF ok THEN acc_index(q.accumulators, id) ELSE q.accumulators
             rsv == IF ~ok THEN 0
                    ELSE IF q.kind \in HeapProcessors THEN acc_get(q.accumulators, id)
                    ELSE accumulators.accumulator[id]
         IN  [q |-> [q EXCEPT !.next_result_location = @ + 1,
                              !.accumulators = IF q.kind \in HeapProcessors
                                               THEN @ ELSE accumulators,
                              !.undefined = @ \/ ~ok],
              result |-> [null |-> FALSE, document_id |-> id, primary_key |-> id,
                          rsv |-> rsv]]

get_first(q) == get_next([sort(q) EXCEPT !.next_result_location = 0])

init(kind, documents, top_k, width, g) ==
    IF kind \in HeapProcessors
    THEN query_heap_init(kind, documents, top_k, width, g)
    ELSE query_block_max_init(kind, documents, top_k, width, g)

(***************************************************************************)
(* run_export_trec.  A line of the stream is the tuple of its six columns; *)
(* the sixth is the run name with, when asked for, the internal ids        *)
(* written right after it.                                                 *)
(***************************************************************************)
\* the primary keys of run_export_trec::unittest
KeyNames == <<"zero", "one", "two", "three", "four", "five", "six">>

\* *document->primary_key: the key table has one key per document
primary_key_of(document) ==
    IF document.primary_key + 1 \in DOMAIN KeyNames
    THEN KeyNames[document.primary_key + 1] ELSE ""

\* (uint32_t)rsv: the low 32 bits, taken 16 bits at a time
uint32_t(x) ==
    (x % AccumulatorModulus) + AccumulatorModulus * ((x \div AccumulatorModulus) % AccumulatorModulus)

\* the rank is written before it is incremented
trec_line_rank_from_zero(document, current, topic_id, run_name, include_internal_ids) ==
    <<topic_id, "Q0", primary_key_of(document), current - 1, uint32_t(document.rsv),
      IF include_internal_ids
      THEN <<run_name, "(ID:", document.document_id, "->", uint32_t(document.rsv), ")">>
      ELSE <<run_name>> >>

\* the body of the loop, current already incremented
trec_line(document, current, topic_id, run_name, include_internal_ids) ==
    <<topic_id, "Q0", primary_key_of(document), current, uint32_t(document.rsv),
      IF include_internal_ids
      THEN <<run_name, "(ID:", document.document_id, "->", uint32_t(document.rsv), ")">>
      ELSE <<run_name>> >>

\* the loop from the result r = [q, result] that get_first or get_next gave;
\* current results are already written
RECURSIVE export_from(_, _, _, _, _)
export_from(r, current, topic_id, run_name, include_internal_ids) ==
    IF r.result.null THEN [q |-> r.q, stream |-> << >>, results |-> << >>]
    ELSE LET line == trec_line(r.result, current + 1, topic_id, run_name,
                               include_internal_ids)
             rest == export_from(get_next(r.q), current + 1, topic_id, run_name,
                                 include_internal_ids)
         IN  [q |-> rest.q, stream |-> <<line>> \o rest.stream,
              results |-> <<r.result>> \o rest.results]

run_export_trec(q, topic_id, run_name, include_internal_ids) ==
    export_from(get_first(q), 0, topic_id, run_name, include_internal_ids)

(***************************************************************************)
(* Spec: the three processors, initialised alike and driven by one caller  *)
(* with the same calls.  The caller keeps                                  *)
(*   adds, rewinds   how many postings and rewinds it has issued           *)
(*   lower_bound     the top_k_lower_bound of the latest rewind, 0 before  *)
(*                   the first                                             *)
(*   calls           the <<document_id, score>> of every add_rsv since the *)
(*                   latest rewind (since init before the first)           *)
(*   late            an add_rsv came after the sort of this query          *)
(*   lates           how many such postings in the run                     *)
(*   thrown          add_rsv has thrown Done in this query                 *)
(*   listing         per processor: "none", "open" after get_first, "done" *)
(*                   once NULL came back                                   *)
(*   results         per processor: what get_first / get_next returned     *)
(*   again, previous the complete listing before the latest get_first,     *)
(*                   when no add_rsv or rewind came in between             *)
(*   segments        the <<impact, compressed>> of every decode_and_process*)
(*                   since the latest rewind                               *)
(*   direct          the caller itself called add_rsv in this query        *)
(*   signals         per processor: for every Done thrown in this query,   *)
(*                   need before and after the add_rsv that threw and the  *)
(*                   pointers in the heap when it threw                    *)
(*   escaped         a Done left decode_and_process in this query          *)
(*   after_signal    which of add_rsv and decode_and_process the caller    *)
(*                   called after a Done was thrown in this query          *)
(*   extra           get_next calls made since the NULL that ended the     *)
(*                   listing                                               *)
(*   resumed         one of them returned a result                         *)
(*   exported        "no", or how the latest listing was exported: "plain" *)
(*                   or "ids" (include_internal_ids)                       *)
(*   stream          per processor: the lines run_export_trec wrote        *)
(***************************************************************************)
\* delta lists handed to decode_and_process: two to MaxSegment postings (one
\* posting is an add_rsv call), every document below Documents
MaxSegment == 2

Segments ==
    UNION { { c \in [1..n -> 0..(Documents - 1)] :
                /\ \A i \in 2..n : c[i] >= 1
                /\ cumulative_sum_256(c)[n] < Documents }
            : n \in 2..MaxSegment }

NoResults == [p \in Processors |-> << >>]

\* the pointers in accumulator_pointers[0 .. top_k)
HeapOf(q) == { q.accumulator_pointers[i] : i \in 0..(q.top_k - 1) }

\* what the caller notes of an add_rsv that threw Done: q before the call,
\* r what add_rsv gave
Signal(q, r) ==
    [before |-> q.needed_for_top_k, after |-> r.q.needed_for_top_k, heap |-> HeapOf(r.q)]

Fresh(top_k, g) ==
    [p \in Processors |-> init(p, Documents, top_k, PreferredWidth, g)]

Init ==
    /\ acc = Idle
    /\ accg = Idle
    /\ \E top_k \in 1..TopK : \E g \in {Garbage} :
          /\ query = Fresh(top_k, g)
          /\ caller = [mode |-> "query", top_k |-> top_k, g |-> g,
                       adds |-> 0, rewinds |-> 0, lower_bound |-> 0,
                       calls |-> << >>, late |-> FALSE, lates |-> 0,
                       thrown |-> FALSE,
                       segments |-> << >>, direct |-> FALSE,
                       signals |-> NoResults, escaped |-> FALSE,
                       after_signal |-> {},
                       extra |-> 0, resumed |-> FALSE,
                       exported |-> "no", stream |-> NoResults,
                       listing |-> [p \in Processors |-> "none"],
                       results |-> NoResults,
                       again |-> FALSE, previous |-> NoResults]

\* the callers list the results in one loop,
\*   for (rsv = get_first(); rsv != NULL; rsv = get_next())
\* and make no other call until it has ended
Listing == caller.mode = "query" /\ \E p \in Processors : caller.listing[p] = "open"

Ready == caller.mode = "query" /\ ~Listing

\* the processors get the same calls, so they are sorted together
Sorted == \E p \in Processors : query[p].sorted

Rewind(top_k_lower_bound) ==
    /\ Ready
    /\ caller.rewinds < MaxRewinds
    /\ query' = [p \in Processors |-> rewind(query[p], top_k_lower_bound)]
    /\ caller' = [caller EXCEPT !.rewinds = @ + 1,
                                !.lower_bound = top_k_lower_bound,
                                !.calls = << >>, !.late = FALSE, !.thrown = FALSE,
                                !.segments = << >>, !.direct = FALSE,
                                !.signals = NoResults, !.escaped = FALSE,
                                !.after_signal = {},
                                !.extra = 0, !.resumed = FALSE,
                                !.exported = "no", !.stream = NoResults,
                                !.listing = [p \in Processors |-> "none"],
                                !.results = NoResults,
                                !.again = FALSE, !.previous = NoResults]
    /\ UNCHANGED <<acc, accg>>

AddRsv(document_id, score) ==
    /\ Ready
    /\ caller.adds < MaxAdds
    /\ Sorted => caller.lates < MaxLate
    /\ \E r \in {[p \in Processors |-> add_rsv(query[p], document_id, score)]} :
           /\ query' = [p \in Processors |-> r[p].q]
           /\ caller' = [caller EXCEPT
                            !.adds = @ + 1,
                            !.calls = Append(@, <<document_id, score>>),
                            !.late = @ \/ Sorted,
                            !.lates = IF Sorted THEN @ + 1 ELSE @,
                            !.thrown = @ \/ \E p \in Processors : r[p].done,
                            !.direct = TRUE,
                            !.extra = 0, !.resumed = FALSE,
                            !.exported = "no", !.stream = NoResults,
                            !.after_signal = IF caller.thrown THEN @ \cup {"add_rsv"} ELSE @,
                            !.signals = [p \in Processors |->
                                            IF r[p].done
                                            THEN Append(@[p], Signal(query[p], r[p]))
                                            ELSE @[p]],
                            !.listing = [p \in Processors |-> "none"],
                            !.results = NoResults,
                            !.again = FALSE, !.previous = NoResults]
    /\ UNCHANGED <<acc, accg>>

\* the postings a delta list stands for
Postings(impact, compressed) ==
    [i \in 1..Len(compressed) |-> <<cumulative_sum_256(compressed)[i], impact>>]

DecodeAndProcess(impact, compressed) ==
    /\ Ready
    /\ Len(compressed) >= 1
    /\ caller.adds + Len(compressed) <= MaxAdds
    /\ Sorted => caller.lates + Len(compressed) <= MaxLate
    /\ query' = [p \in Processors |-> decode_and_process(query[p], impact, compressed)]
    /\ caller' = [caller EXCEPT
                     !.segments = Append(@, <<impact, compressed>>),
                     !.extra = 0, !.resumed = FALSE,
                     !.exported = "no", !.stream = NoResults,
                     !.after_signal = IF caller.thrown
                                      THEN @ \cup {"decode_and_process"} ELSE @,
                     !.signals = [p \in Processors |->
                         LET buffer == cumulative_sum_256(compressed)
                             q0 == [query[p] EXCEPT !.impact = impact]
                             at == signal_position(q0, buffer, 1)
                             q1 == process_postings(q0, SubSeq(buffer, 1, at - 1), 1)
                         IN  IF at = 0 THEN @[p]
                             ELSE Append(@[p], Signal(q1, add_rsv(q1, buffer[at], impact)))],
                     !.escaped = @ \/ \E p \in Processors :
                         decode_with_writer_throws([query[p] EXCEPT !.impact = impact],
                                                   compressed),
                     !.adds = @ + Len(compressed),
                     !.calls = @ \o Postings(impact, compressed),
                     !.late = @ \/ Sorted,
                     !.lates = IF Sorted THEN @ + Len(compressed) ELSE @,
                     !.thrown = @ \/ \E p \in Processors : \E i \in 1..Len(compressed) :
                         add_rsv(process_postings([query[p] EXCEPT !.impact = impact],
                                     SubSeq(cumulative_sum_256(compressed), 1, i - 1), 1),
                                 cumulative_sum_256(compressed)[i], impact).done,
                     !.listing = [p \in Processors |-> "none"],
                     !.results = NoResults,
                     !.again = FALSE, !.previous = NoResults]
    /\ UNCHANGED <<acc, accg>>

Sort ==
    /\ Ready
    /\ query' = [p \in Processors |-> sort(query[p])]
    /\ UNCHANGED caller
    /\ UNCHANGED <<acc, accg>>

GetFirst ==
    /\ Ready
    /\ \E r \in {[p \in Processors |-> get_first(query[p])]} :
       LET complete == \A p \in Processors : caller.listing[p] = "done"
       IN  /\ query' = [p \in Processors |-> r[p].q]
           /\ caller' = [caller EXCEPT
                            !.listing = [p \in Processors |->
                                            IF r[p].result.null THEN "done" ELSE "open"],
                            !.results = [p \in Processors |->
                                            IF r[p].result.null THEN << >>
                                            ELSE <<r[p].result>>],
                            !.extra = 0, !.resumed = FALSE,
                            !.exported = "no", !.stream = NoResults,
                            !.again = @ \/ complete,
                            !.previous = IF complete THEN caller.results ELSE @]
    /\ UNCHANGED <<acc, accg>>

\* every processor whose listing is open is asked for its next result
GetNext ==
    /\ Listing
    /\ \E r \in {[p \in Processors |-> get_next(query[p])]} :
       LET open(p) == caller.listing[p] = "open"
       IN  /\ query' = [p \in Processors |-> IF open(p) THEN r[p].q ELSE query[p]]
           /\ caller' = [caller EXCEPT
                            !.listing = [p \in Processors |->
                                            IF open(p) /\ r[p].result.null
                                            THEN "done" ELSE @[p]],
                            !.results = [p \in Processors |->
                                            IF open(p) /\ ~r[p].result.null
                                            THEN Append(@[p], r[p].result) ELSE @[p]]]
    /\ UNCHANGED <<acc, accg>>

\* run_export_trec(stream, topic_id, *query, run_name, include_internal_ids)
Export(topic_id, run_name, include_internal_ids) ==
    /\ Ready
    /\ \E r \in {[p \in Processors |->
                     run_export_trec(query[p], topic_id, run_name,
                                     include_internal_ids)]} :
       LET complete == \A p \in Processors : caller.listing[p] = "done"
       IN  /\ query' = [p \in Processors |-> r[p].q]
           /\ caller' = [caller EXCEPT
                            !.listing = [p \in Processors |-> "done"],
                            !.results = [p \in Processors |-> r[p].results],
                            !.extra = 0, !.resumed = FALSE,
                            !.exported = IF include_internal_ids THEN "ids" ELSE "plain",
                            !.stream = [p \in Processors |-> r[p].stream],
                            !.again = @ \/ complete,
                            !.previous = IF complete THEN caller.results ELSE @]
    /\ UNCHANGED <<acc, accg>>

\* get_next called again after the loop has ended; an export is followed by
\* no get_next of the caller's own
GetNextAtEnd ==
    /\ caller.mode = "query"
    /\ \A p \in Processors : caller.listing[p] = "done"
    /\ caller.exported = "no"
    /\ caller.extra < MaxExtra
    /\ \E r \in {[p \in Processors |-> get_next(query[p])]} :
           /\ query' = [p \in Processors |-> r[p].q]
           /\ caller' = [caller EXCEPT
                            !.extra = @ + 1,
                            !.resumed = @ \/ \E p \in Processors : ~r[p].result.null]
    /\ UNCHANGED <<acc, accg>>

Next ==
    \/ \E top_k_lower_bound \in 1..MaxScore : Rewind(top_k_lower_bound)
    \/ \E document_id \in 0..(Documents - 1) : \E score \in 1..MaxScore :
          AddRsv(document_id, score)
    \/ \E impact \in 1..MaxScore : \E compressed \in Segments :
          DecodeAndProcess(impact, compressed)
    \/ Sort
    \/ GetFirst
    \/ GetNext
    \/ GetNextAtEnd
    \/ \E include_internal_ids \in BOOLEAN : Export("qid", "unittest", include_internal_ids)

Spec == Init /\ [][Next]_vars

\* the loop of a listing is not abandoned: get_next is called until NULL
SpecListing == Spec /\ WF_vars(GetNext)

(***************************************************************************)
(* SpecManager: get_by_name called with names from the command line.  An   *)
(* object is the class new built, with the accumulator array it is made    *)
(* over; query is the sequence of objects returned, caller the names asked *)
(* for and what was written to std::cout.                                  *)
(***************************************************************************)
Names == {"2d_heap", "1d_heap", "simple", "blockmax", "", "2D_HEAP", "heap", "block_max"}

\* what a get_by_name that gave up would return
nullptr == [class |-> "nullptr", ACCUMULATOR_ARRAY |-> "none"]

query_heap_over(array) == [class |-> "query_heap", ACCUMULATOR_ARRAY |-> array]

\* an unknown name gives no processor
get_by_name_unknown_null(name) ==
    LET banner == <<"ACCUMULATOR MANAGER:", name>>
    IN  IF name = "2d_heap"
        THEN [object |-> query_heap_over("accumulator_2d"), cout |-> <<banner>>]
        ELSE IF name = "1d_heap"
        THEN [object |-> query_heap_over("accumulator_simple"), cout |-> <<banner>>]
        ELSE IF name = "simple"
        THEN [object |-> [class |-> "query_simple", ACCUMULATOR_ARRAY |-> "none"],
              cout |-> <<banner>>]
        ELSE IF name = "blockmax"
        THEN [object |-> [class |-> "query_block_max",
                          ACCUMULATOR_ARRAY |-> "accumulator_block_max"],
              cout |-> <<banner>>]
        ELSE [object |-> nullptr,
              cout |-> <<banner, <<"ACCUMULATOR MANAGER IS UNKNOWN! USING 2d_heap">> >>]

\* the object returned and the lines written to std::cout
get_by_name(name) ==
    LET banner == <<"ACCUMULATOR MANAGER:", name>>
    IN  IF name = "2d_heap"
        THEN [object |-> query_heap_over("accumulator_2d"), cout |-> <<banner>>]
        ELSE IF name = "1d_heap"
        THEN [object |-> query_heap_over("accumulator_simple"), cout |-> <<banner>>]
        ELSE IF name = "simple"
        THEN [object |-> [class |-> "query_simple", ACCUMULATOR_ARRAY |-> "none"],
              cout |-> <<banner>>]
        ELSE IF name = "blockmax"
        THEN [object |-> [class |-> "query_block_max",
                          ACCUMULATOR_ARRAY |-> "accumulator_block_max"],
              cout |-> <<banner>>]
        ELSE [object |-> query_heap_over("accumulator_2d"),
              cout |-> <<banner, <<"ACCUMULATOR MANAGER IS UNKNOWN! USING 2d_heap">> >>]

ManagerInit ==
    /\ query = << >>
    /\ caller = [mode |-> "manager", names |-> << >>, cout |-> << >>]
    /\ acc = Idle
    /\ accg = Idle

GetByName(name) ==
    /\ caller.mode = "manager"
    /\ Len(query) < MaxManagers
    /\ LET r == get_by_name(name)
       IN  /\ query' = Append(query, r.object)
           /\ caller' = [caller EXCEPT !.names = Append(@, name),
                                       !.cout = @ \o r.cout]
    /\ UNCHANGED <<acc, accg>>

ManagerNext == \E name \in Names : GetByName(name)

SpecManager == ManagerInit /\ [][ManagerNext]_vars

(***************************************************************************)
(* What the caller can say about a query from the calls it made.           *)
(***************************************************************************)
RECURSIVE FinalScore(_, _)
\* the sum of the scores the calls gave document_id
FinalScore(calls, document_id) ==
    IF calls = << >> THEN 0
    ELSE (IF Head(calls)[1] = document_id THEN Head(calls)[2] ELSE 0)
             + FinalScore(Tail(calls), document_id)

Scored == { d \in 0..(Documents - 1) : FinalScore(caller.calls, d) > 0 }

Returned(p) == { caller.results[p][i].document_id : i \in 1..Len(caller.results[p]) }

\* rewind, then add_rsv calls only, then a listing run to its end
Listed(p) ==
    /\ caller.mode = "query"
    /\ caller.rewinds > 0
    /\ ~caller.late
    /\ caller.listing[p] = "done"

\* the listing is a top-k of the final scores
TopKOfScores(p) ==
    LET results == caller.results[p]
    IN  /\ ~query[p].undefined
        /\ Len(results) = Min(caller.top_k, Cardinality(Scored))
        /\ Cardinality(Returned(p)) = Len(results)
        /\ \A i \in 1..Len(results) :
              /\ results[i].document_id \in 0..(Documents - 1)
              /\ results[i].rsv = FinalScore(caller.calls, results[i].document_id)
              /\ \A d \in (0..(Documents - 1)) \ Returned(p) :
                    FinalScore(caller.calls, d) <= results[i].rsv

\* C1: after rewind with lower bound 1, whatever add_rsv calls follow, the
\* listing of a heap-driven processor has min(k, number of documents with a
\* non-zero final score) distinct documents, each with its final score as
\* rsv, and no document left out has a higher final score than one returned.
C1_HeapTopK ==
    \A p \in HeapProcessors :
        (Listed(p) /\ caller.lower_bound = 1) => TopKOfScores(p)

\* a full heap turned a document away or evicted one
C1_Witness ==
    /\ \A p \in HeapProcessors :
          /\ Listed(p) /\ caller.lower_bound = 1
          /\ Len(caller.results[p]) = caller.top_k
          /\ \E d \in Scored : d \notin Returned(p)
          /\ \E i \in 1..Len(caller.results[p]) : caller.results[p][i].rsv > 1
    /\ caller.top_k = TopK

\* C2: after rewind, whatever add_rsv calls follow, sort() and the listing of
\* the block-max processor give min(k, number of documents with a non-zero
\* final score) distinct documents, each with its final score as rsv, and no
\* document left out has a higher final score than one returned.
C2_BlockMaxTopK ==
    Listed("blockmax") => TopKOfScores("blockmax")

\* the collect had more scored documents than places
C2_Witness ==
    /\ Listed("blockmax")
    /\ caller.top_k = TopK
    /\ Len(caller.results["blockmax"]) = TopK
    /\ \E d \in Scored : d \notin Returned("blockmax")
    /\ \E i \in 1..TopK : caller.results["blockmax"][i].rsv > 1

\* after a rewind the processors read no uninitialised pointer
RewoundIsDefined ==
    (caller.mode = "query" /\ caller.rewinds > 0) =>
        \A p \in Processors : ~query[p].undefined

AllListed == \A p \in Processors : Listed(p)

\* C3 (as claimed): for the same documents, k and add_rsv calls the heap-driven
\* and the block-max processor list the same documents in the same order with
\* the same rsv.
C3_SameEnumeration ==
    (AllListed /\ caller.lower_bound = 1) =>
        \A p \in HeapProcessors : caller.results[p] = caller.results["blockmax"]

\* the two listings always agree on the rsv values, place by place
SameScoresListed ==
    (AllListed /\ caller.lower_bound = 1) =>
        \A p \in HeapProcessors :
            /\ Len(caller.results[p]) = Len(caller.results["blockmax"])
            /\ \A i \in 1..Len(caller.results[p]) :
                  caller.results[p][i].rsv = caller.results["blockmax"][i].rsv

\* C4 (as claimed): of two listed documents with equal final score the one
\* with the smaller document id comes first.
C4_SmallerIdFirst ==
    \A p \in Processors :
        Listed(p) =>
            \A i, j \in 1..Len(caller.results[p]) :
                (i < j /\ caller.results[p][i].rsv = caller.results[p][j].rsv)
                    => caller.results[p][i].document_id < caller.results[p][j].document_id

\* C4 (amended): of two listed documents with equal final score the one with
\* the larger document id (the larger accumulator address) comes first.
C4_LargerIdFirst ==
    \A p \in Processors :
        Listed(p) =>
            \A i, j \in 1..Len(caller.results[p]) :
                (i < j /\ caller.results[p][i].rsv = caller.results[p][j].rsv)
                    => caller.results[p][i].document_id > caller.results[p][j].document_id

\* every processor lists two documents with the same final score
C4_Witness ==
    /\ AllListed
    /\ \A p \in Processors :
          \E i, j \in 1..Len(caller.results[p]) :
              /\ i < j
              /\ caller.results[p][i].rsv = caller.results[p][j].rsv
              /\ caller.results[p][i].rsv = FinalScore(caller.calls,
                                                caller.results[p][i].document_id)

\* the results m, m-1, ..., 1, each with rsv 1
OnesListed(m) ==
    [i \in 1..m |-> [null |-> FALSE, document_id |-> m + 1 - i,
                     primary_key |-> m + 1 - i, rsv |-> 1]]

\* one decode_and_process of m ones with impact 1 is all the processor got
OnesDecoded(p, m) ==
    /\ caller.mode = "query"
    /\ m <= caller.top_k /\ m < Documents
    /\ caller.calls = [i \in 1..m |-> <<i, 1>>]
    /\ query[p].impact = 1
    /\ caller.listing[p] = "done"

\* C5 (as claimed): a freshly initialised heap-driven processor given the delta
\* list of m ones with impact 1 (k >= m, D > m) lists m results with rsv 1, the
\* documents m, m-1, ..., 1.
C5_OnesOnFresh ==
    \A p \in HeapProcessors : \A m \in 1..MaxSegment :
        (caller.rewinds = 0 /\ OnesDecoded(p, m)) => caller.results[p] = OnesListed(m)

\* the same list on a processor rewound with lower bound 1
OnesOnRewound ==
    \A p \in HeapProcessors : \A m \in 1..MaxSegment :
        (caller.rewinds > 0 /\ caller.lower_bound = 1 /\ ~caller.late /\ OnesDecoded(p, m))
            => caller.results[p] = OnesListed(m)

\* C6: for the heap-driven and the block-max processors, after any add_rsv
\* calls the rsv of the results get_first and get_next return never goes up.
C6_RsvNonIncreasing ==
    \A p \in Processors :
        Listed(p) =>
            \A i, j \in 1..Len(caller.results[p]) :
                i < j => caller.results[p][i].rsv >= caller.results[p][j].rsv

\* every processor lists a higher rsv before a lower one, the higher one
\* added last
C6_Witness ==
    /\ AllListed
    /\ Len(caller.calls) >= 2
    /\ caller.calls[Len(caller.calls)][2] > caller.calls[1][2]
    /\ \A p \in Processors :
          /\ Len(caller.results[p]) = TopK
          /\ caller.results[p][1].rsv > caller.results[p][TopK].rsv
          /\ caller.results[p][1].document_id = caller.calls[Len(caller.calls)][1]

\* what sort() is claimed to leave alone
Core(p) ==
    <<query[p].accumulator_pointers, query[p].needed_for_top_k, query[p].accumulators>>

\* a call on sorted processors that is neither add_rsv nor rewind
CallOnSorted ==
    /\ caller.mode = "query"
    /\ Sorted
    /\ caller'.adds = caller.adds
    /\ caller'.rewinds = caller.rewinds

\* C7: with no add_rsv or rewind in between, a second sort() or get_first()
\* leaves the pointer array, need and the accumulators of every processor as
\* they were, and the listing after it equals the listing before it.
C7_SortIdempotent ==
    /\ [][CallOnSorted => \A p \in Processors : Core(p)' = Core(p)]_vars
    /\ []((caller.mode = "query" /\ caller.again
              /\ \A p \in Processors : caller.listing[p] = "done")
            => caller.results = caller.previous)

\* rewound processors have been listed twice, two results each time
C7_Witness ==
    /\ caller.mode = "query"
    /\ caller.rewinds > 0
    /\ caller.again
    /\ \A p \in Processors :
          /\ caller.listing[p] = "done"
          /\ Len(caller.previous[p]) = TopK
          /\ Len(caller.results[p]) = TopK

RECURSIVE Replay(_, _)
\* the processor after the add_rsv calls
Replay(q, calls) ==
    IF calls = << >> THEN q
    ELSE Replay(add_rsv(q, Head(calls)[1], Head(calls)[2]).q, Tail(calls))

RECURSIVE Rest(_)
\* the results of get_next until NULL
Rest(q) ==
    LET r == get_next(q)
    IN  IF r.result.null THEN << >> ELSE <<r.result>> \o Rest(r.q)

\* for (rsv = get_first(); rsv != NULL; rsv = get_next())
Enumeration(q) ==
    LET r == get_first(q)
    IN  IF r.result.null THEN << >> ELSE <<r.result>> \o Rest(r.q)

\* C8 (as claimed): after any earlier query, rewind with lower bound 1 and the
\* add_rsv calls S give the listing a freshly initialised processor gives for
\* S, on the 2d_heap, the 1d_heap and the block-max processor.
C8_RewindAsFresh ==
    \A p \in Processors :
        (Listed(p) /\ caller.lower_bound = 1 /\ caller.calls # << >>) =>
            caller.results[p] =
                Enumeration(Replay(init(p, Documents, caller.top_k, PreferredWidth,
                                        caller.g),
                                   caller.calls))

\* the listing is that of a processor initialised and rewound once: nothing
\* of the earlier queries shows
RewindAsRewound ==
    \A p \in Processors :
        (Listed(p) /\ caller.lower_bound = 1) =>
            caller.results[p] =
                Enumeration(Replay(rewind(init(p, Documents, caller.top_k,
                                               PreferredWidth, caller.g), 1),
                                   caller.calls))

(***************************************************************************)
(* Early exit under an oracle lower bound.                                 *)
(***************************************************************************)
\* the k-th largest final score of the query, 0 when fewer than k documents
\* are scored
KthLargestScore ==
    LET score(d) == FinalScore(caller.calls, d)
        all == 0..(Documents - 1)
    IN  CHOOSE L \in 0..(MaxScore * MaxAdds) :
            /\ Cardinality({ d \in all : score(d) >= L }) >= caller.top_k
            /\ Cardinality({ d \in all : score(d) > L }) < caller.top_k

\* the postings came in descending impact order
ImpactOrdered ==
    \A i, j \in 1..Len(caller.calls) : i < j => caller.calls[i][2] >= caller.calls[j][2]

\* a query processed under the oracle lower bound and listed to its end
OracleListed(p) ==
    /\ Listed(p)
    /\ ImpactOrdered
    /\ caller.lower_bound # 1
    /\ caller.lower_bound = KthLargestScore

\* the listing of the same postings processed under lower bound 1
FullScan(p) ==
    Enumeration(Replay(rewind(init(p, Documents, caller.top_k, PreferredWidth, caller.g), 1),
                       caller.calls))

\* exactly k documents reach the k-th largest final score
NoTieAtBound ==
    Cardinality({ d \in 0..(Documents - 1) :
                    FinalScore(caller.calls, d) >= KthLargestScore }) = caller.top_k

\* C12 (as claimed): when rewind installs a lower bound L # 1 equal to the
\* k-th largest final score of the query, the listing of the heap-driven
\* processor (documents, order and rsv) is the listing the same postings
\* give under lower bound 1.
C12_OracleSameEnumeration ==
    \A p \in HeapProcessors : OracleListed(p) => caller.results[p] = FullScan(p)

\* the same with no tie at L: the rsv values still differ
OracleSameWithoutTies ==
    \A p \in HeapProcessors :
        (OracleListed(p) /\ NoTieAtBound) => caller.results[p] = FullScan(p)

\* with no tie at L the two listings hold the same documents
OracleSameDocuments ==
    \A p \in HeapProcessors :
        (OracleListed(p) /\ NoTieAtBound) =>
            Returned(p) = { FullScan(p)[i].document_id : i \in 1..Len(FullScan(p)) }

\* C13: between two rewinds Done is thrown only by the add_rsv call that
\* takes need from 1 to 0 while the lower bound installed by rewind is not 1:
\* never under lower bound 1, never before the first rewind, never by the
\* block-max processor, and at most once per query.
C13_SignalOnlyOnFill ==
    caller.mode = "query" =>
        \A p \in Processors :
            /\ Len(caller.signals[p]) <= 1
            /\ (p = "blockmax" \/ caller.lower_bound = 1 \/ caller.rewinds = 0)
                  => caller.signals[p] = << >>
            /\ \A i \in 1..Len(caller.signals[p]) :
                  /\ caller.signals[p][i].before = 1
                  /\ caller.signals[p][i].after = 0
            /\ caller.thrown <=> \E r \in Processors : caller.signals[r] # << >>

\* both heap-driven processors threw once when the second of two places was
\* taken, and a document that was not in the heap then has reached the lower
\* bound since
C13_Witness ==
    /\ caller.mode = "query"
    /\ caller.top_k = TopK
    /\ caller.lower_bound # 1
    /\ caller.signals["blockmax"] = << >>
    /\ \A p \in HeapProcessors :
          /\ Len(caller.signals[p]) = 1
          /\ \E d \in 0..(Documents - 1) :
                /\ FinalScore(caller.calls, d) >= caller.lower_bound
                /\ AddressOf(d) \notin caller.signals[p][1].heap

\* the pointers to the documents of a listing
ListedPointers(p) ==
    { AddressOf(caller.results[p][i].document_id) : i \in 1..Len(caller.results[p]) }

\* a query in which Done was thrown, listed to its end
SignalledListed(p) ==
    /\ caller.mode = "query"
    /\ ~caller.late
    /\ caller.signals[p] # << >>
    /\ caller.listing[p] = "done"

\* C14 (as claimed): once Done has been thrown in a query, whatever
\* decode_and_process, sort and get_first calls follow before the next
\* rewind, the listing is the set of k pointers that was in the heap when
\* Done was thrown.
C14_TopKFixedAfterSignal ==
    \A p \in HeapProcessors :
        (SignalledListed(p) /\ "add_rsv" \notin caller.after_signal) =>
            ListedPointers(p) = caller.signals[p][1].heap

\* when no posting is processed after the Done, the listing is the heap of
\* that moment
TopKOfSignalWhenStopped ==
    \A p \in HeapProcessors :
        (SignalledListed(p) /\ caller.after_signal = {}) =>
            ListedPointers(p) = caller.signals[p][1].heap

\* this step is a decode_and_process call
DecodeStep == Len(caller'.segments) = Len(caller.segments) + 1

\* the processor as decode_and_process finds it, the impact set
Entering(p) == [query[p] EXCEPT !.impact = caller'.segments[Len(caller'.segments)][1]]

\* the documents of the segment of this step
StepBuffer == cumulative_sum_256(caller'.segments[Len(caller'.segments)][2])

\* the posting of the segment of this step at which p throws Done, 0 if none
StepSignal(p) == signal_position(Entering(p), StepBuffer, 1)

\* C15: when add_rsv throws Done on the j-th posting of a segment,
\* decode_with_writer catches it and returns: no Done ever leaves
\* decode_and_process, the processor is left as the first j add_rsv calls
\* leave it, and the accumulators of the documents of postings j+1.. read
\* after the call what they read before it.
C15_SignalCaughtInDecode ==
    /\ [](caller.mode = "query" => ~caller.escaped)
    /\ [][(caller.mode = "query" /\ DecodeStep) =>
            \A p \in Processors :
                StepSignal(p) # 0 =>
                    /\ query'[p] = Replay(Entering(p),
                                          [i \in 1..StepSignal(p) |->
                                              <<StepBuffer[i], Entering(p).impact>>])
                    /\ \A i \in (StepSignal(p) + 1)..Len(StepBuffer) :
                          acc_get(query'[p].accumulators, StepBuffer[i])
                              = acc_get(query[p].accumulators, StepBuffer[i])]_vars

\* decode_and_process is all the caller called in this query, Done was thrown
\* in it, and a document of the segment has a posting that was not added to
\* its accumulator
C15_Witness ==
    /\ caller.mode = "query"
    /\ ~caller.direct
    /\ ~caller.escaped
    /\ caller.segments # << >>
    /\ \A p \in HeapProcessors :
          /\ caller.signals[p] # << >>
          /\ \E d \in 0..(Documents - 1) :
                FinalScore(caller.calls, d) > acc_get(query[p].accumulators, d)

\* no document reached the bound of the processor: the lower bound rewind
\* installed for the heap-driven ones; the block-max processor, whose rewind
\* drops the parameter, takes every score above 0
NoneReached(p) ==
    \A d \in 0..(Documents - 1) :
        IF p \in HeapProcessors
        THEN FinalScore(caller.calls, d) < caller.lower_bound
        ELSE FinalScore(caller.calls, d) = 0

\* the results a listing has handed out, counted against k - need
ListingCounts ==
    caller.mode = "query" =>
        /\ ~caller.resumed
        /\ \A p \in Processors :
              LET left == query[p].top_k - query[p].needed_for_top_k
                              - Len(caller.results[p])
              IN  /\ caller.listing[p] = "open" =>
                        /\ left >= 0
                        /\ get_next(query[p]).result.null <=> left = 0
                  /\ caller.listing[p] = "done" =>
                        /\ left = 0
                        /\ get_next(query[p]).result.null
                  /\ (caller.rewinds > 0 /\ caller.listing[p] # "none" /\ NoneReached(p))
                        => (caller.listing[p] = "done" /\ caller.results[p] = << >>)

\* on rewound processors a listing of TopK results has ended and get_next
\* was called MaxExtra times more
C16_Witness ==
    /\ caller.mode = "query"
    /\ caller.extra = MaxExtra
    /\ ~caller.resumed
    /\ caller.rewinds > 0
    /\ \A p \in Processors :
          /\ caller.listing[p] = "done"
          /\ Len(caller.results[p]) = TopK

\* get_first() returned NULL on processors that were given scores, all below
\* the lower bound
FirstIsNull ==
    /\ caller.mode = "query"
    /\ caller.rewinds > 0
    /\ caller.calls # << >>
    /\ \A p \in HeapProcessors :
          /\ caller.listing[p] = "done"
          /\ caller.results[p] = << >>

\* every listing comes to its end
ListingEnds == Listing ~> ~Listing

\* C16: the get_first / get_next loop terminates.  A listing hands out at
\* most k - need results; when it has handed out k - need the next get_next()
\* returns NULL, not before; the listing has then k - need results in total
\* (that of get_first included) and every later get_next() returns NULL; on
\* a rewound processor on which no document reached the lower bound
\* get_first() itself returns NULL.
C16_EnumerationTerminates == []ListingCounts /\ ListingEnds

(***************************************************************************)
(* The exporter.                                                           *)
(***************************************************************************)
\* this step is a run_export_trec call
ExportStep ==
    /\ caller.mode = "query"
    /\ caller'.exported # "no"
    /\ caller'.extra = 0
    /\ <<query, caller>>' # <<query, caller>>

\* C19: run_export_trec writes one line per result of the enumeration, in
\* the order of the enumeration; the line of the r-th result, r counted from
\* 1, is topic_id, Q0, the primary key of the document, r, the rsv and the
\* run name, the run name followed by (ID:document_id->rsv) exactly when
\* include_internal_ids is true; an empty enumeration writes nothing.
C19_TrecLines ==
    /\ [][ExportStep => \A p \in Processors :
                            caller'.results[p] = Enumeration(query[p])]_vars
    /\ []((caller.mode = "query" /\ caller.exported # "no") =>
            \A p \in Processors :
                ~query[p].undefined =>
                    /\ Len(caller.stream[p]) = Len(caller.results[p])
                    /\ \A r \in 1..Len(caller.stream[p]) :
                          LET line == caller.stream[p][r]
                              document == caller.results[p][r]
                          IN  /\ Len(line) = 6
                              /\ line[1] = "qid"
                              /\ line[2] = "Q0"
                              /\ line[3] = KeyNames[document.document_id + 1]
                              /\ line[4] = r
                              /\ line[5] = document.rsv
                              /\ line[6] = IF caller.exported = "ids"
                                           THEN <<"unittest", "(ID:", document.document_id,
                                                  "->", document.rsv, ")">>
                                           ELSE <<"unittest">>)

\* rewound processors exported TopK results each with the internal ids, the
\* documents not in the order of their ids
C19_Witness ==
    /\ caller.mode = "query"
    /\ caller.rewinds > 0
    /\ caller.exported = "ids"
    /\ \A p \in Processors :
          /\ ~query[p].undefined
          /\ Len(caller.stream[p]) = TopK
          /\ caller.stream[p][1][4] = 1
          /\ caller.stream[p][TopK][4] = TopK
          /\ caller.results[p][1].rsv > caller.results[p][TopK].rsv
          /\ caller.results[p][1].document_id < caller.results[p][TopK].document_id

\* an export of processors on which nothing was scored wrote nothing
NothingExported ==
    /\ caller.mode = "query"
    /\ caller.rewinds > 0
    /\ caller.exported = "plain"
    /\ \A p \in Processors : caller.stream[p] = << >>

(***************************************************************************)
(* The factory.                                                            *)
(***************************************************************************)
\* C20: get_by_name returns a processor for every name: for 2d_heap the
\* heap processor over the 2d accumulator, for 1d_heap the heap processor
\* over the simple accumulator, for simple the simple processor, for
\* blockmax the block-max processor, and for every other name the same kind
\* of processor as for 2d_heap; no name gives an error or no processor.
C20_GetByNameTotal ==
    caller.mode = "manager" =>
        /\ Len(query) = Len(caller.names)
        /\ \A i \in 1..Len(query) :
              LET name == caller.names[i]
                  object == query[i]
                  heap_2d == [class |-> "query_heap", ACCUMULATOR_ARRAY |-> "accumulator_2d"]
              IN  /\ object.class \in {"query_heap", "query_simple", "query_block_max"}
                  /\ name = "2d_heap" => object = heap_2d
                  /\ name = "1d_heap" =>
                        object = [class |-> "query_heap",
                                  ACCUMULATOR_ARRAY |-> "accumulator_simple"]
                  /\ name = "simple" => object.class = "query_simple"
                  /\ name = "blockmax" => object.class = "query_block_max"
                  /\ name \notin {"2d_heap", "1d_heap", "simple", "blockmax"} =>
                        object = heap_2d
        /\ \A i, j \in 1..Len(query) :
              caller.names[i] = caller.names[j] => query[i] = query[j]

\* an unknown name, the name 2d_heap and the name blockmax were asked for:
\* the first two objects are of the same kind, the third is not
C20_Witness ==
    /\ caller.mode = "manager"
    /\ Len(query) = 3
    /\ caller.names = <<"block_max", "2d_heap", "blockmax">>
    /\ query[1] = query[2]
    /\ query[3] # query[1]

(***************************************************************************)
(* The heap of query_heap.                                                 *)
(***************************************************************************)
\* this step is one add_rsv call of the caller's own
AddRsvStep ==
    /\ caller.mode = "query"
    /\ caller'.adds = caller.adds + 1
    /\ caller'.segments = caller.segments
    /\ Len(caller'.calls) = Len(caller.calls) + 1

\* the document and the score of the add_rsv call of this step
StepDocument == caller'.calls[Len(caller'.calls)][1]
StepScore == caller'.calls[Len(caller'.calls)][2]

\* what operator[] reads at document_id before the call
OldValue(q, document_id) == acc_index(q.accumulators, document_id).accumulator[document_id]

\* the heap of p is full under the lower bound 1 of the latest rewind
FullUnderOne(p) ==
    /\ caller.rewinds > 0
    /\ caller.lower_bound = 1
    /\ query[p].needed_for_top_k = 0
    /\ ~query[p].undefined

\* C21: in query_heap rewound with lower bound 1, once the heap is full, at
\* every add_rsv(d, s) with s > 0 the test of add_rsv on (old value, address)
\* against (top_k_lower_bound, accumulator_pointers[0]) says "in the heap"
\* exactly when &accumulators[d] is one of the pointers of the heap; find is
\* never called for a pointer that is absent (it would not be found) and
\* push_back never for one that is present.
C21_MembershipExact ==
    [][AddRsvStep =>
        \A p \in HeapProcessors :
            FullUnderOne(p) =>
                LET which == AddressOf(StepDocument)
                    old == OldValue(query[p], StepDocument)
                    stored == which \in HeapOf(query[p])
                IN  /\ StepScore > 0
                    /\ ~not_in_heap(query[p], which, old) <=> stored
                    /\ ~query'[p].undefined
                    /\ ~stored /\ old + StepScore >= query[p].top_k_lower_bound =>
                          which < query[p].accumulator_pointers[0]
                              \/ which \in HeapOf(query'[p])]_vars

\* three add_rsv calls on rewound processors with k = 2 and lower bound 1:
\* two documents fill the heap, the third call adds to the first document,
\* which is in the heap
C21_Witness ==
    /\ caller.mode = "query"
    /\ caller.rewinds > 0
    /\ caller.lower_bound = 1
    /\ caller.top_k = 2
    /\ ~caller.late
    /\ caller.segments = << >>
    /\ Len(caller.calls) = 3
    /\ caller.calls[1][1] # caller.calls[2][1]
    /\ caller.calls[3][1] = caller.calls[1][1]
    /\ \A p \in HeapProcessors :
          /\ query[p].needed_for_top_k = 0
          /\ ~query[p].undefined
          /\ AddressOf(caller.calls[3][1]) \in HeapOf(query[p])

\* a document that lost its place in the heap to a tie is added to again:
\* its old value equals the lower bound and it is not in the heap
TieLoserReturns ==
    /\ caller.mode = "query"
    /\ caller.rewinds > 0
    /\ caller.lower_bound = 1
    /\ caller.top_k = 1
    /\ ~caller.late
    /\ caller.calls = <<<<0, 1>>, <<1, 1>>, <<0, 1>>>>
    /\ \A p \in HeapProcessors : HeapOf(query[p]) = {AddressOf(0)}

\* the filled part of the pointer array of q
Filled(q) == q.needed_for_top_k..(q.top_k - 1)

\* C22: in every reachable state of a rewound query_heap the filled part
\* accumulator_pointers[needed_for_top_k .. top_k) holds pairwise distinct
\* pointers, each the address of the accumulator of a document: no document
\* is stored twice, whatever add_rsv calls were made since the rewind.
C22_DistinctPointers ==
    (caller.mode = "query" /\ caller.rewinds > 0) =>
        \A p \in HeapProcessors :
            /\ \A i \in Filled(query[p]) :
                  /\ query[p].accumulator_pointers[i] = AddressOf(get_index(query[p].accumulator_pointers[i]))
                  /\ get_index(query[p].accumulator_pointers[i]) \in 0..(Documents - 1)
            /\ \A i, j \in Filled(query[p]) :
                  i # j => query[p].accumulator_pointers[i] # query[p].accumulator_pointers[j]

\* k = 2 and three add_rsv calls since the rewind, the first two to the same
\* document, the third to another one, which fills the heap
C22_Witness ==
    /\ caller.mode = "query"
    /\ caller.rewinds > 0
    /\ caller.top_k = 2
    /\ Len(caller.calls) = 3
    /\ caller.calls[1][1] = caller.calls[2][1]
    /\ caller.calls[3][1] # caller.calls[1][1]
    /\ \A p \in HeapProcessors :
          /\ query[p].needed_for_top_k = 0
          /\ HeapOf(query[p]) = {AddressOf(caller.calls[1][1]), AddressOf(caller.calls[3][1])}

\* k = 1 and the document of the full heap is added to twice more
RepeatedAfterFull ==
    /\ caller.mode = "query"
    /\ caller.rewinds > 0
    /\ caller.top_k = 1
    /\ Len(caller.calls) = 3
    /\ \A i \in 1..3 : caller.calls[i][1] = caller.calls[1][1]
    /\ \A p \in HeapProcessors :
          /\ query[p].needed_for_top_k = 0
          /\ HeapOf(query[p]) = {AddressOf(caller.calls[1][1])}

\* the heap of p is full on a rewound processor
Full(p) ==
    /\ caller.mode = "query"
    /\ caller.rewinds > 0
    /\ query[p].needed_for_top_k = 0

\* *accumulator_pointers[0] is the least of the values the heap points at
BottomIsMinimum ==
    \A p \in HeapProcessors :
        Full(p) =>
            \A i \in 0..(query[p].top_k - 1) :
                Deref(query[p], query[p].accumulator_pointers[0])
                    <= Deref(query[p], query[p].accumulator_pointers[i])

\* C23 (as claimed): in query_heap, whenever the heap is full after an
\* add_rsv call, whether the call returned or threw Done, top_k_lower_bound
\* equals *accumulator_pointers[0], the least value among the k heap entries.
C23_BoundIsBottom ==
    /\ BottomIsMinimum
    /\ \A p \in HeapProcessors :
          Full(p) =>
              query[p].top_k_lower_bound = Deref(query[p], query[p].accumulator_pointers[0])

\* what holds: the bound is the bottom of the full heap when no add_rsv has
\* thrown Done since the rewind
BoundIsBottomWithoutSignal ==
    \A p \in HeapProcessors :
        (Full(p) /\ caller.signals[p] = << >>) =>
            query[p].top_k_lower_bound = Deref(query[p], query[p].accumulator_pointers[0])

\* after a Done the bound is the one of rewind, at most the bottom of the heap
BoundAtMostBottom ==
    \A p \in HeapProcessors :
        Full(p) =>
            query[p].top_k_lower_bound <= Deref(query[p], query[p].accumulator_pointers[0])

(***************************************************************************)
(* The pointer array of both processors.                                   *)
(***************************************************************************)
\* the indexes of accumulator_pointers[] that the next add_rsv on q uses:
\* --needed_for_top_k while the heap fills, 0 for the bottom of the heap
add_rsv_indexes(q) ==
    IF q.kind \in HeapProcessors
    THEN {0} \cup (IF q.needed_for_top_k > 0 THEN {q.needed_for_top_k - 1} ELSE {})
    ELSE {}

\* the indexes that the next sort on q uses: those that the collect of
\* query_block_max fills and the part handed to top_k_qsort::sort
sort_indexes(q) ==
    IF q.sorted THEN {}
    ELSE IF q.kind \in HeapProcessors THEN q.needed_for_top_k..(q.top_k - 1)
    ELSE LET c == scan_blocks([q |-> q, bottom_of_heap |-> 0], 0).q
         IN  (c.needed_for_top_k..(q.needed_for_top_k - 1))
                 \cup (c.needed_for_top_k..(c.top_k - 1))
                 \cup (IF c.needed_for_top_k = 0 THEN {0} ELSE {})

\* the index that the next get_next on q reads, if it does not return NULL
get_next_indexes(q) ==
    IF q.next_result_location >= q.top_k - q.needed_for_top_k THEN {}
    ELSE {q.top_k - q.next_result_location - 1}

\* get_next is called after get_first only
PointerIndexes(p) ==
    add_rsv_indexes(query[p]) \cup sort_indexes(query[p])
        \cup (IF caller.listing[p] = "none" THEN {} ELSE get_next_indexes(query[p]))

\* this step is a rewind
RewindStep == caller.mode = "query" /\ caller'.rewinds = caller.rewinds + 1

\* C24: after init with 1 <= k <= MAX_TOP_K, in every reachable state of
\* both processors 0 <= needed_for_top_k <= k, so that the k - need stored
\* pointers are at most k, every index that add_rsv, sort and get_next use
\* on accumulator_pointers[] lies in [0, k), and needed_for_top_k does not
\* grow except in rewind.
C24_NeedAndIndexesInRange ==
    /\ [](caller.mode = "query" =>
            \A p \in Processors :
                /\ query[p].top_k = caller.top_k
                /\ query[p].top_k >= 1 /\ query[p].top_k <= MAX_TOP_K
                /\ query[p].needed_for_top_k \in 0..query[p].top_k
                /\ DOMAIN query[p].accumulator_pointers = 0..(query[p].top_k - 1)
                /\ PointerIndexes(p) \subseteq 0..(query[p].top_k - 1))
    /\ [][(caller.mode = "query" /\ ~RewindStep) =>
            \A p \in Processors :
                query'[p].needed_for_top_k <= query[p].needed_for_top_k]_vars

\* k = 2: the two query_heap have filled their pointer array by add_rsv, the
\* query_block_max by its sort, and all three have handed out two results
C24_Witness ==
    /\ caller.mode = "query"
    /\ caller.rewinds > 0
    /\ caller.top_k = 2
    /\ ~caller.late
    /\ \A p \in Processors :
          /\ query[p].needed_for_top_k = 0
          /\ caller.listing[p] = "done"
          /\ Len(caller.results[p]) = 2
          /\ query[p].next_result_location = 2

(***************************************************************************)
(* The lower bound of query_heap.                                          *)
(***************************************************************************)
\* the pointers in the filled part of the pointer array
StoredOf(q) == { q.accumulator_pointers[i] : i \in Filled(q) }

\* p is a query_heap that was rewound
RewoundHeap(p) == caller.mode = "query" /\ caller.rewinds > 0 /\ ~query[p].undefined

\* every stored document and every listed document has reached the lower
\* bound L of the latest rewind; under L = 1 none has the score 0
AtLeastTheBound ==
    \A p \in HeapProcessors :
        RewoundHeap(p) =>
            /\ caller.lower_bound >= 1
            /\ \A pointer \in StoredOf(query[p]) : Deref(query[p], pointer) >= caller.lower_bound
            /\ \A r \in 1..Len(caller.results[p]) :
                  caller.results[p][r].rsv >= caller.lower_bound

\* C25 (as claimed): in query_heap with a lower bound L >= 1 installed by
\* rewind, a document enters the pointer array only at the add_rsv call that
\* moves its score from below the current top_k_lower_bound to at or above
\* it, so every document of the enumeration has rsv >= L, and with L = 1 no
\* document of score 0 is returned.
C25_EntersFromBelow ==
    /\ []AtLeastTheBound
    /\ [][AddRsvStep =>
            \A p \in HeapProcessors :
                RewoundHeap(p) =>
                    \A pointer \in StoredOf(query'[p]) \ StoredOf(query[p]) :
                        /\ pointer = AddressOf(StepDocument)
                        /\ OldValue(query[p], StepDocument) < query[p].top_k_lower_bound
                        /\ OldValue(query[p], StepDocument) + StepScore
                              >= query[p].top_k_lower_bound]_vars

\* C25 (amended): a document enters the pointer array only at an add_rsv
\* call that leaves its score at or above the current top_k_lower_bound and
\* before which its score was below the bound or, the heap being full, equal
\* to the bound with an address below accumulator_pointers[0] (it had lost
\* the tie-break); every document of the enumeration has rsv >= L, and with
\* L = 1 no document of score 0 is returned.
C25_EntersFromBelowOrTie ==
    /\ []AtLeastTheBound
    /\ [][AddRsvStep =>
            \A p \in HeapProcessors :
                RewoundHeap(p) =>
                    \A pointer \in StoredOf(query'[p]) \ StoredOf(query[p]) :
                        /\ pointer = AddressOf(StepDocument)
                        /\ OldValue(query[p], StepDocument) + StepScore
                              >= query[p].top_k_lower_bound
                        /\ \/ OldValue(query[p], StepDocument) < query[p].top_k_lower_bound
                           \/ /\ query[p].needed_for_top_k = 0
                              /\ OldValue(query[p], StepDocument) = query[p].top_k_lower_bound
                              /\ pointer < query[p].accumulator_pointers[0]]_vars

\* lower bound 2, k = 2: document 1 got 1 twice and is the one result, with
\* rsv 2; document 0, which got 1, is not listed
C25_Witness ==
    /\ caller.mode = "query"
    /\ caller.rewinds > 0
    /\ caller.lower_bound = 2
    /\ caller.top_k = 2
    /\ ~caller.late
    /\ Len(caller.calls) = 3
    /\ caller.calls[1] = <<1, 1>>
    /\ caller.calls[2] = <<0, 1>>
    /\ caller.calls[3] = <<1, 1>>
    /\ \A p \in HeapProcessors :
          /\ caller.listing[p] = "done"
          /\ Len(caller.results[p]) = 1
          /\ caller.results[p][1].document_id = 1
          /\ caller.results[p][1].rsv = 2

\* C26: in query_heap, between two rewinds top_k_lower_bound never
\* decreases: after every add_rsv call with s > 0, made by the caller or by
\* decode_and_process, and after every other call but rewind, it is at least
\* what it was before.
C26_BoundNeverDecreases ==
    [][(caller.mode = "query" /\ ~RewindStep) =>
        \A p \in HeapProcessors :
            RewoundHeap(p) =>
                query'[p].top_k_lower_bound >= query[p].top_k_lower_bound]_vars

\* k = 2 under the lower bound 1: three add_rsv calls have taken
\* top_k_lower_bound to 2
C26_Witness ==
    /\ caller.mode = "query"
    /\ caller.rewinds > 0
    /\ caller.lower_bound = 1
    /\ caller.top_k = 2
    /\ Len(caller.calls) = 3
    /\ \A p \in HeapProcessors :
          /\ ~query[p].undefined
          /\ query[p].needed_for_top_k = 0
          /\ query[p].top_k_lower_bound = 2

\* the bound has risen above the oracle bound that rewind installed
AboveOracleBound ==
    /\ caller.mode = "query"
    /\ caller.rewinds > 0
    /\ caller.lower_bound = 2
    /\ caller.thrown
    /\ \A p \in HeapProcessors :
          /\ ~query[p].undefined
          /\ query[p].top_k_lower_bound > 2

(***************************************************************************)
(* The order of the add_rsv calls.                                         *)
(***************************************************************************)
\* the calls in the order f, a permutation of their positions
Reordered(calls, f) == [i \in 1..Len(calls) |-> calls[f[i]]]

\* C27: in query_heap under the lower bound 1, the add_rsv calls of a query
\* (all with s > 0) made in any other order give the same enumeration: the
\* same documents in the same order with the same rsv.
C27_OrderIndependent ==
    \A p \in HeapProcessors :
        (Listed(p) /\ caller.lower_bound = 1) =>
            \A f \in Permutations(1..Len(caller.calls)) :
                Enumeration(Replay(rewind(init(p, Documents, caller.top_k,
                                               PreferredWidth, caller.g), 1),
                                   Reordered(caller.calls, f)))
                    = caller.results[p]

\* k = 2 under the lower bound 1: three documents were added to in the order
\* of their ids with the same score, and the two of highest id are listed
C27_Witness ==
    /\ caller.mode = "query"
    /\ caller.lower_bound = 1
    /\ caller.top_k = 2
    /\ Len(caller.calls) = 3
    /\ caller.calls[1][1] < caller.calls[2][1]
    /\ caller.calls[2][1] < caller.calls[3][1]
    /\ caller.calls[1][2] = caller.calls[2][2]
    /\ caller.calls[3][2] = caller.calls[1][2]
    /\ \A p \in HeapProcessors :
          /\ Listed(p)
          /\ Len(caller.results[p]) = 2
          /\ caller.results[p][1].document_id = caller.calls[3][1]
          /\ caller.results[p][2].document_id = caller.calls[2][1]

(***************************************************************************)
(* What an add_rsv below the bound leaves alone.                           *)
(***************************************************************************)
\* the add_rsv call of this step leaves accumulator d of p below the bound
BelowBound(p) ==
    (OldValue(query[p], StepDocument) + StepScore) % AccumulatorModulus
        < query[p].top_k_lower_bound

\* the slots of the row of the 2d array that holds which, all slots of the
\* other arrays having no row to clean but their own
RowOf(a, which) ==
    IF a.kind = "2d"
    THEN { i \in DOMAIN a.accumulator : which_dirty_flag(a, i) = which_dirty_flag(a, which) }
    ELSE {which}

\* C28: in query_heap, an add_rsv(d, s) that leaves accumulator d below
\* top_k_lower_bound changes accumulator d and, in the 2d array, the row it
\* had to clean and the dirty flag of that row, and nothing else: the pointer
\* array, needed_for_top_k, top_k_lower_bound and sorted are as before, every
\* other document reads as before and no Done is thrown.
C28_BelowBoundFrame ==
    [][AddRsvStep =>
        \A p \in HeapProcessors :
            BelowBound(p) =>
                LET q == query[p]
                    r == query'[p]
                    d == StepDocument
                IN  /\ r.accumulator_pointers = q.accumulator_pointers
                    /\ r.needed_for_top_k = q.needed_for_top_k
                    /\ r.top_k_lower_bound = q.top_k_lower_bound
                    /\ r.sorted = q.sorted
                    /\ r.zero = q.zero
                    /\ r.next_result_location = q.next_result_location
                    /\ r.top_k = q.top_k /\ r.documents = q.documents
                    /\ caller'.signals[p] = caller.signals[p]
                    /\ acc_get(r.accumulators, d) = acc_get(q.accumulators, d) + StepScore
                    /\ \A i \in 0..(Documents - 1) :
                          i # d => acc_get(r.accumulators, i) = acc_get(q.accumulators, i)
                    /\ \A i \in DOMAIN q.accumulators.accumulator :
                          i \notin RowOf(q.accumulators, d) =>
                              r.accumulators.accumulator[i] = q.accumulators.accumulator[i]
                    /\ \A f \in DOMAIN q.accumulators.flag :
                          (q.accumulators.kind = "2d" /\ f # which_dirty_flag(q.accumulators, d))
                              => r.accumulators.flag[f] = q.accumulators.flag[f]]_vars

\* k = 1 under the lower bound 1: document 0 got 2 and holds the heap with
\* the bound at 2, then document 2, in a row of the 2d array that was still
\* dirty, got 1 and stays out
C28_Witness ==
    /\ caller.mode = "query"
    /\ caller.rewinds > 0
    /\ caller.lower_bound = 1
    /\ caller.top_k = 1
    /\ caller.calls = <<<<0, 2>>, <<2, 1>>>>
    /\ caller.segments = << >>
    /\ \A p \in HeapProcessors :
          /\ query[p].top_k_lower_bound = 2
          /\ HeapOf(query[p]) = {AddressOf(0)}
          /\ acc_get(query[p].accumulators, 2) = 1
    /\ query["2d_heap"].accumulators.flag[which_dirty_flag(query["2d_heap"].accumulators, 2)] = 0
    /\ query["2d_heap"].accumulators.flag[which_dirty_flag(query["2d_heap"].accumulators, 0)] = 0
    /\ which_dirty_flag(query["2d_heap"].accumulators, 2)
          # which_dirty_flag(query["2d_heap"].accumulators, 0)

(***************************************************************************)
(* The processor right after init.                                         *)
(***************************************************************************)
\* p is as a rewind with the lower bound L leaves it
ReadyFor(p, L) ==
    /\ query[p].needed_for_top_k = query[p].top_k
    /\ p \in HeapProcessors => query[p].top_k_lower_bound = L
    /\ ~query[p].sorted
    /\ \A d \in 0..(Documents - 1) : acc_get(query[p].accumulators, d) = 0

\* no call has been made since init or since the latest rewind
Untouched ==
    /\ caller.calls = << >>
    /\ \A p \in Processors : caller.listing[p] = "none" /\ ~query[p].sorted

\* C29 (as claimed): right after init(keys, D, k), with no rewind call, a
\* processor is ready for its first query: needed_for_top_k = k, the lower
\* bound is 1, sorted is false and every accumulator reads 0; the add_rsv
\* calls made directly after init are processed as a query on a rewound
\* processor and listed as such.
C29_ReadyAfterInit ==
    (caller.mode = "query" /\ caller.rewinds = 0) =>
        \A p \in Processors :
            /\ Untouched => ReadyFor(p, 1)
            /\ (~caller.late /\ caller.listing[p] = "done") =>
                  caller.results[p] =
                      Enumeration(Replay(rewind(init(p, Documents, caller.top_k,
                                                     PreferredWidth, caller.g), 1),
                                         caller.calls))

\* what init does leave: the lower bound 1, sorted false and accumulators
\* that read 0, with needed_for_top_k = 0
AfterInit ==
    (caller.mode = "query" /\ caller.rewinds = 0 /\ Untouched) =>
        \A p \in Processors :
            /\ query[p].needed_for_top_k = 0
            /\ p \in HeapProcessors => query[p].top_k_lower_bound = 1
            /\ ~query[p].sorted
            /\ \A d \in 0..(Documents - 1) : acc_get(query[p].accumulators, d) = 0

\* what holds: a processor is ready right after an explicit rewind
ReadyAfterRewind ==
    (caller.mode = "query" /\ caller.rewinds > 0 /\ Untouched) =>
        \A p \in Processors : ReadyFor(p, caller.lower_bound)

\* the listed results of add_rsv calls made with no rewind differ from those
\* of a rewound processor
FreshListingDiffers ==
    /\ caller.mode = "query"
    /\ caller.rewinds = 0
    /\ caller.calls = <<<<2, 1>>, <<1, 2>>>>
    /\ \A p \in Processors :
          /\ caller.listing[p] = "done"
          /\ caller.results[p] #
                Enumeration(Replay(rewind(init(p, Documents, caller.top_k,
                                               PreferredWidth, caller.g), 1),
                                   caller.calls))

(***************************************************************************)
(* The block maxima of accumulator_block_max, as query_block_max drives    *)
(* it: by add and rewind only.                                             *)
(***************************************************************************)
\* the slots of block b
SlotsOf(a, b) == (b * a.width)..(b * a.width + a.width - 1)

\* the largest accumulator of block b
LargestOf(a, b) ==
    CHOOSE m \in { a.accumulator[i] : i \in SlotsOf(a, b) } :
        \A i \in SlotsOf(a, b) : a.accumulator[i] <= m

\* C30: after init and any sequence of add(i, v) with i < n and of rewind()
\* on the block-max array, block_max[b] is, for every block b, the largest
\* of the accumulators in slots [b * width, (b + 1) * width); right after a
\* rewind every block maximum is 0.
C30_BlockMaxIsMaximum ==
    /\ [](caller.mode = "query" =>
            LET a == query["blockmax"].accumulators
            IN  /\ a.kind = "block_max"
                /\ a.rows * a.width >= a.n
                /\ \A b \in 0..(a.rows - 1) : a.flag[b] = LargestOf(a, b))
    /\ [][RewindStep =>
            LET a == query'["blockmax"].accumulators
            IN  \A b \in 0..(a.rows - 1) : a.flag[b] = 0]_vars

\* documents 0 and 1 share block 0 and got 1 and 2, document 2 in block 1
\* got 1: the block maxima are 2 and 1
C30_Witness ==
    /\ caller.mode = "query"
    /\ caller.rewinds > 0
    /\ caller.calls = <<<<0, 1>>, <<1, 2>>, <<2, 1>>>>
    /\ query["blockmax"].accumulators.width = 2
    /\ query["blockmax"].accumulators.rows = 2
    /\ query["blockmax"].accumulators.flag[0] = 2
    /\ query["blockmax"].accumulators.flag[1] = 1

\* a rewind has cleared block maxima that were above 0
MaximaCleared ==
    /\ caller.mode = "query"
    /\ caller.rewinds = 2
    /\ caller.adds = 3
    /\ caller.calls = << >>
    /\ \A b \in 0..(query["blockmax"].accumulators.rows - 1) :
          query["blockmax"].accumulators.flag[b] = 0

(***************************************************************************)
(* The padding of accumulator_block_max.                                   *)
(***************************************************************************)
\* the slots past n that make the last block full
PaddingOf(a) == a.n..(a.allocated - 1)

\* C31: in the block-max array the padding slots [n, width * ceil(n / width))
\* are 0 in every state reached after init through add(i, v) with i < n and
\* rewind(); a rewind leaves every slot from n on as it was, and the scan of
\* sort() takes no padding slot into the pointer array.
C31_PaddingStaysZero ==
    /\ [](caller.mode = "query" =>
            LET q == query["blockmax"]
                a == q.accumulators
            IN  /\ a.allocated = a.width * a.rows
                /\ a.allocated >= a.n /\ a.allocated - a.n < a.width
                /\ \A i \in PaddingOf(a) : a.accumulator[i] = 0
                /\ (caller.rewinds > 0 /\ ~q.undefined) =>
                      \A pointer \in StoredOf(q) : get_index(pointer) \in 0..(a.n - 1))
    /\ [][RewindStep =>
            \A i \in DOMAIN query["blockmax"].accumulators.accumulator :
                i >= query["blockmax"].accumulators.n =>
                    query'["blockmax"].accumulators.accumulator[i]
                        = query["blockmax"].accumulators.accumulator[i]]_vars

\* n = 3 and width 2: slot 3 pads block 1, whose document 2 was scored after
\* an earlier query and a rewind, and the sort has scanned the block and
\* listed document 2
C31_Witness ==
    /\ caller.mode = "query"
    /\ caller.rewinds = 2
    /\ caller.adds > Len(caller.calls)
    /\ PaddingOf(query["blockmax"].accumulators) = {3}
    /\ query["blockmax"].accumulators.flag[1] > 0
    /\ query["blockmax"].sorted
    /\ caller.listing["blockmax"] = "done"
    /\ \E r \in 1..Len(caller.results["blockmax"]) :
          caller.results["blockmax"][r].document_id = 2

(***************************************************************************)
(* What the calls on the 2d array change (SpecAcc).                        *)
(***************************************************************************)
\* this step is the call op on the arrays
AccStep(op) ==
    /\ accg.mode = "acc"
    /\ accg'.ops = accg.ops + 1
    /\ accg'.last.op = op

\* C32: in the 2d array, operator[](i) on a row whose dirty flag is set
\* zeroes exactly the width slots of row i >> shift and clears exactly the
\* flag of that row; on a clean row it changes nothing; the slots and the
\* flags of every other row are as before in both cases.
C32_IndexCleansOneRow ==
    [][AccStep("read") =>
        LET a == acc["2d"]
            r == acc'["2d"]
            i == accg'.last.i
            row == i \div (2 ^ a.shift)
            slots == (row * a.width)..(row * a.width + a.width - 1)
        IN  /\ a.width = 2 ^ a.shift
            /\ slots \subseteq DOMAIN a.accumulator
            /\ [r EXCEPT !.accumulator = a.accumulator, !.flag = a.flag] = a
            /\ a.flag[row] = 0 => r = a
            /\ a.flag[row] # 0 =>
                  /\ \A j \in DOMAIN a.accumulator :
                        r.accumulator[j] = IF j \in slots THEN 0 ELSE a.accumulator[j]
                  /\ \A f \in DOMAIN a.flag :
                        r.flag[f] = IF f = row THEN 0 ELSE a.flag[f]]_vars

\* width 2, n = 3: slot 1 was written, the array rewound and slot 0 read; row
\* 0 is clean with both its slots 0, row 1 is still dirty
C32_Witness ==
    /\ accg.mode = "acc"
    /\ accg.n = 3
    /\ accg.rewinds = 1
    /\ accg.stale = {1}
    /\ accg.last.op = "read" /\ accg.last.i = 0
    /\ accg.ops = 3
    /\ acc["2d"].width = 2
    /\ acc["2d"].flag[0] = 0 /\ acc["2d"].flag[1] # 0
    /\ acc["2d"].accumulator[0] = 0 /\ acc["2d"].accumulator[1] = 0

\* operator[] on a row that is clean: slot 1 was written, slot 0 read
CleanRowRead ==
    /\ accg.mode = "acc"
    /\ accg.rewinds = 0
    /\ accg.written = {1}
    /\ accg.last.op = "read" /\ accg.last.i = 0
    /\ accg.ops = 2
    /\ acc["2d"].width = 2
    /\ acc["2d"].flag[0] = 0
    /\ acc["2d"].accumulator[1] # 0

\* C33: get_value(i) of the 2d array leaves every dirty flag and every
\* accumulator slot as it was; it returns 0 when the row of i is dirty,
\* whatever the slot holds, and the stored value when the row is clean.
C33_GetValueReadsOnly ==
    [][AccStep("get") =>
        LET a == acc["2d"]
            i == accg'.last.i
            row == i \div (2 ^ a.shift)
        IN  /\ acc'["2d"] = a
            /\ accg'.last.seen["2d"] = IF a.flag[row] # 0 THEN 0 ELSE a.accumulator[i]]_vars

\* slot 1 was written in an earlier query and still holds that value; its
\* row is dirty and get_value(1) returned 0
C33_Witness ==
    /\ accg.mode = "acc"
    /\ accg.rewinds = 1
    /\ 1 \in accg.stale
    /\ accg.last.op = "get" /\ accg.last.i = 1
    /\ acc["2d"].flag[1 \div (2 ^ acc["2d"].shift)] # 0
    /\ acc["2d"].accumulator[1] \in 1..MaxScore
    /\ accg.last.seen["2d"] = 0

\* get_value on a clean row returned the value written
CleanRowGetValue ==
    /\ accg.mode = "acc"
    /\ accg.last.op = "get" /\ accg.last.i = 1
    /\ 1 \in accg.written
    /\ acc["2d"].width = 2
    /\ acc["2d"].flag[0] = 0 /\ acc["2d"].flag[1] # 0
    /\ accg.last.seen["2d"] = acc["2d"].accumulator[1]
    /\ accg.last.seen["2d"] \in 1..MaxScore

\* C34: rewind() of the 2d array sets the ceil(n / width) dirty flags and
\* leaves every accumulator slot as it was; rewind() of the simple and of the
\* block-max array writes 0 to slots [0, n) only (and to the block maxima of
\* the block-max array) and leaves every slot from n on as it was.
C34_RewindTouchesOnlyItsPart ==
    [][AccStep("rewind") =>
        /\ LET a == acc["2d"]
               r == acc'["2d"]
               flags == (a.n + a.width - 1) \div a.width
           IN  /\ [r EXCEPT !.flag = a.flag] = a
               /\ \A f \in DOMAIN a.flag :
                     r.flag[f] = IF f < flags THEN DirtyByte ELSE a.flag[f]
        /\ LET a == acc["simple"]
               r == acc'["simple"]
           IN  /\ [r EXCEPT !.accumulator = a.accumulator] = a
               /\ \A i \in DOMAIN a.accumulator :
                     r.accumulator[i] = IF i < a.n THEN 0 ELSE a.accumulator[i]
        /\ LET a == acc["block_max"]
               r == acc'["block_max"]
               blocks == (a.n + a.width - 1) \div a.width
           IN  /\ [r EXCEPT !.accumulator = a.accumulator, !.flag = a.flag] = a
               /\ \A i \in DOMAIN a.accumulator :
                     r.accumulator[i] = IF i < a.n THEN 0 ELSE a.accumulator[i]
               /\ \A b \in DOMAIN a.flag :
                     r.flag[b] = IF b < blocks THEN 0 ELSE a.flag[b]]_vars

\* n = 3, width 2, the memory allocated held Garbage: slot 1 was written, the
\* arrays were rewound; the 2d array has its 2 flags set and slot 1 as
\* written, the simple and the block-max array have slots [0, 3) at 0 and
\* their last slot as allocated
C34_Witness ==
    /\ accg.mode = "acc"
    /\ accg.n = 3
    /\ accg.last.op = "rewind"
    /\ accg.stale = {1}
    /\ acc["2d"].width = 2 /\ acc["2d"].rows = 2
    /\ acc["2d"].flag[0] = DirtyByte /\ acc["2d"].flag[1] = DirtyByte
    /\ acc["2d"].flag[2] = Garbage
    /\ acc["2d"].accumulator[1] \in 1..MaxScore
    /\ \A i \in 0..2 : acc["simple"].accumulator[i] = 0 /\ acc["block_max"].accumulator[i] = 0
    /\ acc["simple"].accumulator[3] = Garbage
    /\ acc["block_max"].accumulator[4] = Garbage
    /\ acc["block_max"].flag[0] = 0 /\ acc["block_max"].flag[1] = 0

(***************************************************************************)
(* Segments handed to decode_and_process one after the other (SpecDecode). *)
(* caller is                                                               *)
(*   top_k, g        as given to init                                      *)
(*   rewinds         the rewind calls made                                 *)
(*   segments        <<impact, deltas>> of the decode_and_process calls    *)
(*                   since the latest rewind                               *)
(*   exits           per processor: did add_rsv throw Done in the loop of  *)
(*                   the latest decode_and_process                         *)
(***************************************************************************)
MaxDecodes == 2
MaxDecodeSegment == 3

\* delta lists of 1 to MaxDecodeSegment postings, every document below
\* Documents
DecodeSegments ==
    UNION { { c \in [1..n -> 0..(Documents - 1)] :
                /\ \A i \in 2..n : c[i] >= 1
                /\ cumulative_sum_256(c)[n] < Documents }
            : n \in 1..MaxDecodeSegment }

DecodeInit ==
    /\ acc = Idle
    /\ accg = Idle
    /\ \E top_k \in 1..TopK :
          /\ query = Fresh(top_k, Garbage)
          /\ caller = [mode |-> "decode", top_k |-> top_k, g |-> Garbage,
                       rewinds |-> 0, segments |-> << >>,
                       exits |-> [p \in Processors |-> FALSE]]

\* rewind(0, top_k_lower_bound, 0)
DecodeRewind(top_k_lower_bound) ==
    /\ caller.mode = "decode"
    /\ caller.rewinds < MaxRewinds
    /\ query' = [p \in Processors |-> rewind(query[p], top_k_lower_bound)]
    /\ caller' = [caller EXCEPT !.rewinds = @ + 1, !.segments = << >>,
                                !.exits = [p \in Processors |-> FALSE]]
    /\ UNCHANGED <<acc, accg>>

\* decode_and_process(impact, Len(compressed), compressed, ...)
DecodeCall(impact, compressed) ==
    /\ caller.mode = "decode"
    /\ Len(caller.segments) < MaxDecodes
    /\ query' = [p \in Processors |-> decode_and_process(query[p], impact, compressed)]
    /\ caller' = [caller EXCEPT
                     !.segments = Append(@, <<impact, compressed>>),
                     !.exits = [p \in Processors |->
                                  signal_position([query[p] EXCEPT !.impact = impact],
                                                  cumulative_sum_256(compressed), 1) # 0]]
    /\ UNCHANGED <<acc, accg>>

DecodeNext ==
    \/ \E top_k_lower_bound \in 1..MaxScore : DecodeRewind(top_k_lower_bound)
    \/ \E impact \in 1..MaxScore : \E compressed \in DecodeSegments :
          DecodeCall(impact, compressed)

SpecDecode == DecodeInit /\ [][DecodeNext]_vars

\* delta_1 + ... + delta_j
RECURSIVE PrefixSum(_, _)
PrefixSum(deltas, j) == IF j = 0 THEN 0 ELSE PrefixSum(deltas, j - 1) + deltas[j]

\* add_rsv(ids[j], impact), add_rsv(ids[j + 1], impact), ... in this order:
\* the processor after the last call, or after the first call that threw Done
RECURSIVE AddEach(_, _, _, _)
AddEach(q, ids, impact, j) ==
    IF j > Len(ids) THEN [q |-> q, done |-> FALSE]
    ELSE LET r == add_rsv(q, ids[j], impact)
         IN  IF r.done THEN [q |-> r.q, done |-> TRUE]
             ELSE AddEach(r.q, ids, impact, j + 1)

\* C35: a decode_and_process(impact, m, deltas) in which no add_rsv throws
\* Done leaves the processor as the m calls add_rsv(d_1, impact), ...,
\* add_rsv(d_m, impact) in this order leave it, d_j = delta_1 + ... + delta_j
\* summed from 0 whatever segments came before; every document has gained
\* impact once for each j with d_j equal to it.
C35_OneAddPerPrefixSum ==
    [][(caller.mode = "decode" /\ Len(caller'.segments) = Len(caller.segments) + 1) =>
        LET segment == caller'.segments[Len(caller'.segments)]
            impact == segment[1]
            deltas == segment[2]
            ids == [j \in 1..Len(deltas) |-> PrefixSum(deltas, j)]
        IN  \A p \in Processors :
              LET r == AddEach([query[p] EXCEPT !.impact = impact], ids, impact, 1)
              IN  ~r.done =>
                    /\ query'[p] = r.q
                    /\ \A d \in 0..(Documents - 1) :
                          acc_get(query'[p].accumulators, d)
                              = acc_get(query[p].accumulators, d)
                                  + impact * Cardinality({j \in 1..Len(ids) : ids[j] = d})]_vars

\* after rewind(0, 1, 0): decode_and_process(1, 2, <<1, 1>>), which ends at
\* document 2, then decode_and_process(2, 3, <<0, 1, 1>>) without a Done on
\* any processor: documents 0, 1 and 2 hold 2, 3 and 3
C35_Witness ==
    /\ caller.mode = "decode"
    /\ caller.rewinds = 1
    /\ caller.segments = << <<1, <<1, 1>> >>, <<2, <<0, 1, 1>> >> >>
    /\ \A p \in Processors :
          /\ ~caller.exits[p]
          /\ acc_get(query[p].accumulators, 0) = 2
          /\ acc_get(query[p].accumulators, 1) = 3
          /\ acc_get(query[p].accumulators, 2) = 3

(***************************************************************************)
(* The buffer the postings are decoded into (SpecBuffer).  caller is       *)
(*   stage      "constructed", then "initialised"                          *)
(*   documents  as given to init                                           *)
(*   size       decompress_buffer.size(), in __m512i elements              *)
(*   reach      one past the furthest DOCID_TYPE a decode has written      *)
(***************************************************************************)
MaxBufferDocuments == 40

\* sizeof(__m512i), sizeof(decompress_buffer[0])
VectorSize == 64

\* the integers a decoder may write past those asked for
DecoderOverrun == 64

\* the 64 is counted in integers and the bytes are rounded down to elements
decompress_buffer_size_overrun_in_integers(documents) ==
    ((DecoderOverrun + documents) * DocidSize) \div VectorSize

\* the argument of decompress_buffer.resize in query::init
decompress_buffer_size(documents) ==
    64 + (documents * DocidSize + VectorSize - 1) \div VectorSize

\* the DOCID_TYPE integers that fit: decode_with_writer casts data() to
\* DOCID_TYPE *
integers_in(size) == (size * VectorSize) \div DocidSize

BufferStart ==
    /\ acc = Idle
    /\ accg = Idle
    /\ query = Idle
    /\ caller = [mode |-> "buffer", stage |-> "constructed", documents |-> 0,
                 size |-> 0, reach |-> 0]

\* init(primary_keys, documents, top_k)
BufferInit(documents) ==
    /\ caller.mode = "buffer" /\ caller.stage = "constructed"
    /\ caller' = [caller EXCEPT !.stage = "initialised", !.documents = documents,
                                !.size = decompress_buffer_size(documents)]
    /\ UNCHANGED <<acc, accg, query>>

\* codex.decode(buffer, integers, ...) writing overrun integers more
BufferDecode(integers, overrun) ==
    /\ caller.mode = "buffer" /\ caller.stage = "initialised"
    /\ caller.reach = 0
    /\ integers <= caller.documents
    /\ caller' = [caller EXCEPT !.reach = integers + overrun]
    /\ UNCHANGED <<acc, accg, query>>

BufferNext ==
    \/ \E documents \in 0..MaxBufferDocuments : BufferInit(documents)
    \/ \E integers \in 1..MaxBufferDocuments : \E overrun \in {0, DecoderOverrun} :
          BufferDecode(integers, overrun)

SpecBuffer == BufferStart /\ [][BufferNext]_vars

\* C36: after init(keys, D, k) the decode buffer holds at least D + 64
\* integers of the size of a document id, and no decode of at most D
\* integers that overruns by at most 64 integers writes past it.
C36_BufferHoldsOverrun ==
    (caller.mode = "buffer" /\ caller.stage = "initialised") =>
        /\ (caller.size * 64) \div 4 >= caller.documents + 64
        /\ caller.reach <= (caller.size * 64) \div 4

\* D = 17, which is not a multiple of the 16 integers of an element: 17
\* integers were decoded with 64 more written
C36_Witness ==
    /\ caller.mode = "buffer" /\ caller.stage = "initialised"
    /\ caller.documents = 17
    /\ caller.size = 66
    /\ caller.reach = 17 + 64

(***************************************************************************)
(* The two comparison functors (SpecDecode).                               *)
(***************************************************************************)
\* the references a processor can hold: the accumulators of the documents
\* and, in query_heap, &zero
ReferencesOf(q) ==
    { AddressOf(d) : d \in 0..(Documents - 1) }
        \cup (IF q.kind \in HeapProcessors THEN {ZeroAddress(q)} ELSE {})

\* C37: add_rsv_compare(a, b) is the three-way comparison of (value, address)
\* in lexicographic order: it is 0 only for a = b, add_rsv_compare(a, b) =
\* -add_rsv_compare(b, a), it is transitive, and sort_rsv_compare(a, b) =
\* -add_rsv_compare(a, b), for all references a, b (and c).
C37_ComparatorsAreLexicographic ==
    caller.mode = "decode" =>
        \A p \in Processors :
            LET q == query[p]
                value(a) == Deref(q, a)
                less(a, b) == value(a) < value(b) \/ (value(a) = value(b) /\ a < b)
            IN  \A a, b \in ReferencesOf(q) :
                  /\ add_rsv_compare(q, a, b)
                        = (IF less(a, b) THEN -1 ELSE IF less(b, a) THEN 1 ELSE 0)
                  /\ add_rsv_compare(q, a, b) = 0 <=> a = b
                  /\ add_rsv_compare(q, a, b) = 0 - add_rsv_compare(q, b, a)
                  /\ sort_rsv_compare(q, a, b) = 0 - add_rsv_compare(q, a, b)
                  /\ \A c \in ReferencesOf(q) :
                        /\ (add_rsv_compare(q, a, b) <= 0 /\ add_rsv_compare(q, b, c) <= 0)
                              => add_rsv_compare(q, a, c) <= 0
                        /\ (add_rsv_compare(q, a, b) < 0 /\ add_rsv_compare(q, b, c) < 0)
                              => add_rsv_compare(q, a, c) < 0

\* documents 0 and 1 hold the same score above 0 and are ordered by address,
\* document 2 holds more than both
C37_Witness ==
    /\ caller.mode = "decode"
    /\ LET q == query["2d_heap"]
       IN  /\ Deref(q, AddressOf(0)) = Deref(q, AddressOf(1))
           /\ Deref(q, AddressOf(0)) >= 1
           /\ Deref(q, AddressOf(2)) > Deref(q, AddressOf(1))
           /\ add_rsv_compare(q, AddressOf(0), AddressOf(1)) = -1
           /\ add_rsv_compare(q, AddressOf(1), AddressOf(2)) = -1
           /\ sort_rsv_compare(q, AddressOf(0), AddressOf(1)) = 1
           /\ add_rsv_compare(q, ZeroAddress(q), AddressOf(0)) # 0

(***************************************************************************)
(* References and the documents they stand for (Spec).                     *)
(***************************************************************************)
\* C38: in each of the three arrays get_index(&accumulator[x]) = x for every
\* slot x of the array, and references are ordered by address as their
\* indexes are; so a reference held in the pointer array is the address of
\* the accumulator of one document, and a listing gives for that document
\* the score its accumulator holds.
C38_IndexOfReference ==
    caller.mode = "query" =>
        \A p \in Processors :
            LET q == query[p]
                a == q.accumulators
            IN  /\ 0..(a.allocated - 1) \subseteq DOMAIN a.accumulator
                /\ \A x \in DOMAIN a.accumulator :
                      /\ get_index(AddressOf(x)) = x
                      /\ \A y \in DOMAIN a.accumulator :
                            AddressOf(x) < AddressOf(y) <=> x < y
                /\ (caller.rewinds > 0 /\ ~q.undefined) =>
                      /\ \A pointer \in StoredOf(q) :
                            (q.kind \in HeapProcessors /\ pointer = ZeroAddress(q))
                            \/ /\ get_index(pointer) \in 0..(q.documents - 1)
                               /\ AddressOf(get_index(pointer)) = pointer
                      /\ caller.listing[p] = "done" =>
                            \A i \in 1..Len(caller.results[p]) :
                                LET r == caller.results[p][i]
                                IN  /\ r.document_id \in 0..(q.documents - 1)
                                    /\ r.rsv = acc_get(a, r.document_id)
                                    /\ (~caller.late /\ ~caller.thrown) =>
                                          r.rsv = FinalScore(caller.calls, r.document_id)

\* k = 2: every processor has listed documents 2 and 1, in this order, with
\* the scores 2 and 1 the calls gave them
C38_Witness ==
    /\ caller.mode = "query"
    /\ caller.rewinds > 0
    /\ caller.top_k = 2
    /\ \A p \in Processors :
          /\ ~query[p].undefined
          /\ caller.listing[p] = "done"
          /\ Len(caller.results[p]) = 2
          /\ caller.results[p][1].document_id = 2 /\ caller.results[p][1].rsv = 2
          /\ caller.results[p][2].document_id = 1 /\ caller.results[p][2].rsv = 1
          /\ FinalScore(caller.calls, 2) = 2 /\ FinalScore(caller.calls, 1) = 1
          /\ AddressOf(2) \in StoredOf(query[p])

====
